---- MODULE Spec2Model ----
(***************************************************************************)
(* Model of the autowired dependency-injection library:                    *)
(*   - Container (autowired/_container.py): the ordered provider list,     *)
(*     get_provider, add, remove, resolve and autowire;                    *)
(*   - the Context lazy-field protocol (autowired/_context.py): the        *)
(*     __getattribute__ hook for normal, thread-local fields, run by       *)
(*     several threads.                                                    *)
(* Python objects are modelled by their identity: an object is an index    *)
(* into the heap, which records the class and the constructor arguments.   *)
(***************************************************************************)
EXTENDS Integers, Sequences, FiniteSets, TLC

VARIABLES
    providers,  \* Container._providers of the container the client works on
    heap,       \* the objects built so far: class and constructor arguments
    last,       \* the latest call on the container and its outcome
    rt,         \* progress of an add / resolve / remove / resolve sequence
    pure,       \* nothing but resolve, autowire, get_provider was called
    steps,      \* number of calls made on the container
    ctx,        \* the context instance: its __dict__, locks and containers
    th,         \* per thread: the call stack and the value being returned
    log         \* per thread: the field reads that completed; the objects
                \* built for a field

vars == <<providers, heap, last, rt, pure, steps, ctx, th, log>>

\* the state of the client's container
cvars == <<providers, last, rt, pure, steps>>

\* the state of the context and its threads
ctxvars == <<ctx, th, log>>

(***************************************************************************)
(* Bounds                                                                  *)
(***************************************************************************)
\* number of calls the client makes on the container
MaxSteps == 4

\* number of threads that read fields of the context
NumThreads == 3

\* number of field reads each thread makes
MaxReads == 2

\* the reads all threads together start on a context whose fields are
\* auto-wired anew by more reads than the first
MaxTotalReads == 3

\* the threads that read such a context
NumReaders == 2

(***************************************************************************)
(* The classes the container is exercised with: those of the test-suite,   *)
(* ServiceC, which needs a ServiceA and its subclass ServiceB, and Node,   *)
(* whose constructor needs an instance of its own subclass Leaf,           *)
(* TupleService, which needs a tuple of fixed length, ExitService, whose   *)
(* constructor calls sys.exit, ExitUser and TestUser, which need an        *)
(* ExitService resp. a TestService, CycleA and CycleB, which need each     *)
(* other, and dataclasses.InitVar; UntypedService, whose constructor       *)
(* parameter has neither annotation nor default; Provider, which inherits  *)
(* the constructor of BaseProvider, MixedProvider, whose first base Mixin  *)
(* defines no constructor, and TwoBases, whose bases Provider and          *)
(* OtherBase both lead to one; PartService, whose first parameter can be   *)
(* auto-wired and whose second cannot; A and B, which both need a          *)
(* HiddenDep.                                                              *)
(***************************************************************************)
None == "None"

Classes ==
    { "object", "str", "Service0", "Service1", "Service2", "Service3",
      "ServiceX", "Service4", "ServiceA", "ServiceB", "ServiceC",
      "OtherService", "SomeClass", "SomeService", "TestService",
      "Node", "Leaf", "TupleService", "ExitService", "InitVar",
      "ExitUser", "TestUser", "CycleA", "CycleB", "list", "tuple",
      "ServiceD", "Config", "InnerConfig", "UntypedService", "Dep",
      "BaseProvider", "Provider", "Mixin", "MixedProvider", "OtherBase",
      "TwoBases", "PartService", "HiddenDep", "A", "B" }

\* t.__bases__ without object
Bases(t) ==
    CASE t = "ServiceB" -> <<"ServiceA">>
      [] t = "Leaf"     -> <<"Node">>
      [] t = "Provider" -> <<"BaseProvider">>
      [] t = "MixedProvider" -> <<"Mixin", "BaseProvider">>
      [] t = "TwoBases" -> <<"Provider", "OtherBase">>
      [] OTHER          -> <<>>

\* t.__module__.split(".")[0]
ModuleOf(t) ==
    CASE t \in {"object", "str", "list", "tuple"} -> "builtins"
      [] t \in {"List[ServiceA]", "Tuple[ServiceA, ...]",
                "Tuple[ServiceA]"}                -> "typing"
      [] t = "InitVar"                            -> "dataclasses"
      [] OTHER                                    -> "tests"

\* typing.get_origin
get_origin(t) ==
    CASE t = "List[ServiceA]"       -> "list"
      [] t = "Tuple[ServiceA, ...]" -> "tuple"
      [] t = "Tuple[ServiceA]"      -> "tuple"
      [] OTHER                      -> None

\* typing.get_args
get_args(t) ==
    CASE t = "List[ServiceA]"       -> <<"ServiceA">>
      [] t = "Tuple[ServiceA, ...]" -> <<"ServiceA", "...">>
      [] t = "Tuple[ServiceA]"      -> <<"ServiceA">>
      [] OTHER                      -> <<>>

\* a constructor parameter: its annotation ("" when it has none) and the
\* class of its default value (None when it has no default)
Param(n, annotation, default) ==
    [name |-> n, annotation |-> annotation, default |-> default]

\* "__init__" in t.__dict__
HasOwnInit(t) ==
    t \in { "Service1", "Service2", "Service3", "ServiceX", "Service4",
            "ServiceC", "OtherService", "SomeService", "TestService",
            "Node", "Leaf", "TupleService", "ExitService", "InitVar",
            "ExitUser", "TestUser", "CycleA", "CycleB", "ServiceD",
            "Config", "InnerConfig", "UntypedService", "BaseProvider",
            "OtherBase", "PartService", "A", "B" }

\* inspect.signature(t.__init__).parameters without self
OwnInitParams(t) ==
    CASE t = "Service1"     -> << Param("service0", "Service0", None) >>
      [] t = "Service2"     -> << Param("service1", "Service1", None),
                                  Param("blabla", "str", "str") >>
      [] t = "Service3"     -> << Param("service0", "Service0", None),
                                  Param("service1", "Service1", None),
                                  Param("foo", "str", "str") >>
      [] t = "ServiceX"     -> << Param("s", "str", None) >>
      [] t = "Service4"     -> << Param("x", "ServiceX", None),
                                  Param("service1", "Service1", None) >>
      [] t = "ServiceC"     -> << Param("a", "ServiceA", None),
                                  Param("b", "ServiceB", None) >>
      [] t = "OtherService" -> << Param("a", "ServiceA", None) >>
      [] t = "SomeService"  -> << Param("arg", "", "SomeClass") >>
      [] t = "Node"         -> << Param("node", "Leaf", None) >>
      [] t = "TupleService" -> << Param("plugins", "Tuple[ServiceA]", None) >>
      [] t = "InitVar"      -> << Param("type", "", None) >>
      [] t = "ExitUser"     -> << Param("exit_service", "ExitService",
                                        None) >>
      [] t = "CycleA"       -> << Param("cycle_b", "CycleB", None) >>
      [] t = "CycleB"       -> << Param("cycle_a", "CycleA", None) >>
      [] t = "TestUser"     -> << Param("test_service", "TestService",
                                        None) >>
      [] t = "ServiceD"     -> << Param("foo", "object", None) >>
      [] t = "Config"       -> << Param("inner", "InnerConfig", None),
                                  Param("name", "str", None) >>
      [] t = "InnerConfig"  -> << Param("foo", "str", None) >>
      [] t = "UntypedService" -> << Param("arg", "", None) >>
      [] t = "BaseProvider" -> << Param("dep", "Dep", None) >>
      [] t = "OtherBase"    -> << Param("service0", "Service0", None) >>
      [] t = "PartService"  -> << Param("service1", "Service1", None),
                                  Param("x", "ServiceX", None) >>
      [] t \in {"A", "B"}   -> << Param("hidden_dep", "HiddenDep", None) >>
      [] OTHER              -> << >>

\* what the constructor body raises: an Exception, a BaseException that is
\* no Exception, or nothing
InitException(t) ==
    CASE t = "TestService" -> "Exception"
      [] t = "ExitService" -> "SystemExit"
      [] OTHER             -> None

\* the constructor body raises
InitRaises(t) == InitException(t) # None

\* _exceptions.py: the exceptions that derive from AutowiredException
IsAutowiredException(e) ==
    e \in { "MissingTypeAnnotation", "IllegalAutoWireType",
            "AmbiguousDependencyException",
            "UnresolvableDependencyException", "InstantiationError",
            "IllegalContextClass", "NotProvidedException" }

\* issubclass(e, Exception) for what a constructor raises
IsException(e) == e \notin {"SystemExit", "KeyboardInterrupt", "GeneratorExit"}

\* re.sub("([a-z0-9])([A-Z])", r"\1_\2", name).lower()
_camel_to_snake(t) ==
    CASE t = "Service0"     -> "service0"
      [] t = "Service1"     -> "service1"
      [] t = "Service2"     -> "service2"
      [] t = "Service3"     -> "service3"
      [] t = "ServiceX"     -> "service_x"
      [] t = "Service4"     -> "service4"
      [] t = "ServiceA"     -> "service_a"
      [] t = "ServiceB"     -> "service_b"
      [] t = "ServiceC"     -> "service_c"
      [] t = "OtherService" -> "other_service"
      [] t = "SomeClass"    -> "some_class"
      [] t = "SomeService"  -> "some_service"
      [] t = "TestService"  -> "test_service"
      [] t = "Node"         -> "node"
      [] t = "Leaf"         -> "leaf"
      [] t = "str"          -> "str"
      [] t = "object"       -> "object"
      [] t = "TupleService" -> "tuple_service"
      [] t = "ExitService"  -> "exit_service"
      [] t = "InitVar"      -> "init_var"
      [] t = "ExitUser"     -> "exit_user"
      [] t = "CycleA"       -> "cycle_a"
      [] t = "CycleB"       -> "cycle_b"
      [] t = "TestUser"     -> "test_user"
      [] t = "tuple"        -> "tuple"
      [] t = "ServiceD"     -> "service_d"
      [] t = "Config"       -> "config"
      [] t = "InnerConfig"  -> "inner_config"
      [] t = "UntypedService" -> "untyped_service"
      [] t = "Dep"          -> "dep"
      [] t = "BaseProvider" -> "base_provider"
      [] t = "Provider"     -> "provider"
      [] t = "Mixin"        -> "mixin"
      [] t = "MixedProvider" -> "mixed_provider"
      [] t = "OtherBase"    -> "other_base"
      [] t = "TwoBases"     -> "two_bases"
      [] t = "PartService"  -> "part_service"
      [] t = "HiddenDep"    -> "hidden_dep"
      [] t = "A"            -> "a"
      [] t = "B"            -> "b"
      [] OTHER              -> "list"

(***************************************************************************)
(* _typing_utils.py                                                        *)
(***************************************************************************)
RECURSIVE issubclass(_, _)
issubclass(t1, t2) ==
    \/ t1 = t2
    \/ t2 = "object"
    \/ \E i \in DOMAIN Bases(t1) : issubclass(Bases(t1)[i], t2)

RECURSIVE is_subtype(_, _)
is_subtype(t1, t2) ==
    IF get_origin(t1) = None /\ get_origin(t2) = None
    THEN issubclass(t1, t2)
    ELSE LET origin1 == IF get_origin(t1) = None THEN t1 ELSE get_origin(t1)
             origin2 == IF get_origin(t2) = None THEN t2 ELSE get_origin(t2)
             args1 == get_args(t1)
             args2 == get_args(t2)
             n == IF Len(args1) < Len(args2) THEN Len(args1) ELSE Len(args2)
         IN  IF ~issubclass(origin1, origin2) THEN FALSE
             ELSE IF get_origin(t1) = None \/ get_origin(t2) = None THEN TRUE
             ELSE IF args1 = <<>> \/ args2 = <<>> THEN TRUE
             ELSE \A i \in 1..n :
                     \/ args1[i] = "..." \/ args2[i] = "..."
                     \/ is_subtype(args1[i], args2[i])

\* faulty get_sequence_type: a tuple type of any arity counts as a sequence
get_sequence_type_any_tuple(t) ==
    IF get_origin(t) = "list" /\ get_args(t) # <<>>
    THEN [seq |-> "list", elem |-> get_args(t)[1]]
    ELSE IF get_origin(t) = "tuple" /\ get_args(t) # <<>>
    THEN [seq |-> "tuple", elem |-> get_args(t)[1]]
    ELSE [seq |-> None, elem |-> None]

\* the element type of a list or variadic tuple type, None otherwise
get_sequence_type(t) ==
    IF get_origin(t) = "list" /\ get_args(t) # <<>>
    THEN [seq |-> "list", elem |-> get_args(t)[1]]
    ELSE IF get_origin(t) = "tuple" /\ Len(get_args(t)) = 2
                                     /\ get_args(t)[2] = "..."
    THEN [seq |-> "tuple", elem |-> get_args(t)[1]]
    ELSE [seq |-> None, elem |-> None]

(***************************************************************************)
(* _container.py: Dependency, providers, helpers                           *)
(***************************************************************************)
Dependency(n, t, r) == [name |-> n, type |-> t, required |-> r]

\* a supplier: "const" closes over one object, "new" builds one per call;
\* fn is the identity of the function object
Getter(k, o, f) == [kind |-> k, obj |-> o, fn |-> f]

_SimpleProvider(n, t, g) == [name |-> n, type |-> t, getter |-> g]

NoProvider == _SimpleProvider(None, None, Getter(None, 0, 0))

\* a function object that no registered provider holds
NewFn(ps) ==
    CHOOSE f \in 1..(Len(ps) + 1) :
        /\ \A i \in DOMAIN ps : ps[i].getter.fn # f
        /\ \A g \in 1..(f - 1) : \E i \in DOMAIN ps : ps[i].getter.fn = g

EmptyKw == [n \in {} |-> 0]

\* the object built by t(**kw)
Obj(t, kw, elems) == [type |-> t, kw |-> kw, elems |-> elems]

RECURSIVE _get_actual_init(_)

\* faulty walk: only the class itself is looked at
_get_actual_init_own(t) == IF HasOwnInit(t) THEN t ELSE None

_get_actual_init(t) ==
    IF HasOwnInit(t) THEN t
    ELSE LET found == { i \in DOMAIN Bases(t) :
                            _get_actual_init(Bases(t)[i]) # None }
         IN  IF found = {} THEN None
             ELSE _get_actual_init(Bases(t)[CHOOSE i \in found :
                                            \A j \in found : i <= j])

\* faulty fallback: a parameter without annotation gets the type object
\* whether it has a default or not
_get_dependencies_for_type_object(t) ==
    LET init == _get_actual_init(t)
        ps == IF init = None THEN <<>> ELSE OwnInitParams(init)
    IN  [ i \in DOMAIN ps |->
            Dependency(ps[i].name,
                       IF ps[i].annotation # "" THEN ps[i].annotation
                       ELSE "object",
                       ps[i].default = None) ]

_get_dependencies_for_type(t) ==
    LET init == _get_actual_init(t)
        ps == IF init = None THEN <<>> ELSE OwnInitParams(init)
    IN  [ i \in DOMAIN ps |->
            LET has_default == ps[i].default # None
                annotation ==
                    IF ps[i].annotation # "" THEN ps[i].annotation
                    ELSE IF has_default THEN ps[i].default
                    ELSE "object"
            IN  Dependency(ps[i].name, annotation, ~has_default) ]

satisfies(p, dep) == is_subtype(p.type, dep.type)

get_providers(ps, dep) == SelectSeq(ps, LAMBDA p : satisfies(p, dep))

_group_by(items) ==
    [ k \in { items[i].name : i \in DOMAIN items } |->
        SelectSeq(items, LAMBDA p : p.name = k) ]

Lookup(k, p) == [kind |-> k, provider |-> p]

\* faulty get_provider: takes the first candidate whatever its name
get_provider_first_candidate(ps, dep) ==
    LET candidates == get_providers(ps, dep)
    IN  IF Len(candidates) >= 1 THEN Lookup("found", candidates[1])
        ELSE Lookup("none", NoProvider)

\* faulty get_provider: takes the first candidate named like the dependency
\* without checking that it is the only one
get_provider_first_named(ps, dep) ==
    LET candidates == get_providers(ps, dep)
        by_name == _group_by(candidates)
    IN  IF Len(candidates) = 1 THEN Lookup("found", candidates[1])
        ELSE IF Len(candidates) > 1
        THEN IF dep.name \in DOMAIN by_name
             THEN Lookup("found", by_name[dep.name][1])
             ELSE Lookup("ambiguous", NoProvider)
        ELSE Lookup("none", NoProvider)

get_provider(ps, dep) ==
    LET candidates == get_providers(ps, dep)
        by_name == _group_by(candidates)
    IN  IF Len(candidates) = 1 THEN Lookup("found", candidates[1])
        ELSE IF Len(candidates) > 1
        THEN IF dep.name \in DOMAIN by_name /\ Len(by_name[dep.name]) = 1
             THEN Lookup("found", by_name[dep.name][1])
             ELSE Lookup("ambiguous", NoProvider)
        ELSE Lookup("none", NoProvider)

(***************************************************************************)
(* Results of a call on a container c = [providers, heap]: the container   *)
(* after the call, the returned object, or the exception and its cause.    *)
(***************************************************************************)
Ret(c, v) == [c |-> c, val |-> v, err |-> None, cause |-> None]

Raise(c, e, cause) == [c |-> c, val |-> 0, err |-> e, cause |-> cause]

Alloc(c, o) == [c EXCEPT !.heap = Append(@, o)]

\* _SimpleProvider.get_instance: self.getter()
get_instance(c, p) ==
    IF p.getter.kind = "const" THEN Ret(c, p.getter.obj)
    ELSE Ret(Alloc(c, Obj(p.type, EmptyKw, <<>>)), Len(c.heap) + 1)

add(c, p) == [c EXCEPT !.providers = Append(@, p)]

\* the only element of a set of one element; { e : x \in {v} } is e with x
\* standing for the value of v, computed once
Only(S) == CHOOSE x \in S : TRUE

RECURSIVE get_elements(_, _, _, _)

\* faulty collective resolution: only the first matching provider is asked
get_elements_first_only(c, ps, i, elements) ==
    IF ps = <<>> THEN [c |-> c, elements |-> elements]
    ELSE LET g == get_instance(c, ps[1])
         IN  [c |-> g.c, elements |-> <<g.val>>]

\* the elements of a collective resolution, in provider order
get_elements(c, ps, i, elements) ==
    IF i > Len(ps) THEN [c |-> c, elements |-> elements]
    ELSE LET g == get_instance(c, ps[i])
         IN  get_elements(g.c, ps, i + 1, Append(elements, g.val))

RECURSIVE resolve(_, _)
RECURSIVE autowire(_, _, _)
RECURSIVE autowire_deps(_, _, _, _, _)

\* faulty resolve: the auto-wired result is returned but not registered
resolve_unregistered(c, dependency) ==
    LET existing == get_provider(c.providers, dependency)
        st == get_sequence_type(dependency.type)
    IN  IF existing.kind = "ambiguous"
        THEN Raise(c, "AmbiguousDependencyException", None)
        ELSE IF existing.kind = "found"
        THEN get_instance(c, existing.provider)
        ELSE IF st.elem # None
        THEN LET e == get_elements(c,
                        get_providers(c.providers,
                            Dependency(dependency.name, st.elem, TRUE)),
                        1, <<>>)
             IN  Ret(Alloc(e.c, Obj(st.seq, EmptyKw, e.elements)),
                     Len(e.c.heap) + 1)
        ELSE autowire(c, dependency.type, EmptyKw)

\* faulty resolve: the provider is registered before the object is built
\* and stays when the construction fails
resolve_registered_first(c, dependency) ==
    LET existing == get_provider(c.providers, dependency)
        st == get_sequence_type(dependency.type)
    IN  IF existing.kind = "ambiguous"
        THEN Raise(c, "AmbiguousDependencyException", None)
        ELSE IF existing.kind = "found"
        THEN get_instance(c, existing.provider)
        ELSE IF st.elem # None
        THEN LET e == get_elements(c,
                        get_providers(c.providers,
                            Dependency(dependency.name, st.elem, TRUE)),
                        1, <<>>)
             IN  Ret(Alloc(e.c, Obj(st.seq, EmptyKw, e.elements)),
                     Len(e.c.heap) + 1)
        ELSE Only({
                 IF result.err # None
                 THEN Raise(add(result.c,
                                _SimpleProvider(dependency.name,
                                    dependency.type,
                                    Getter("const", 0,
                                           NewFn(result.c.providers)))),
                            result.err, result.cause)
                 ELSE Ret(add(result.c,
                              _SimpleProvider(dependency.name, dependency.type,
                                  Getter("const", result.val,
                                         NewFn(result.c.providers)))),
                          result.val)
                 : result \in {autowire(c, dependency.type, EmptyKw)} })

resolve(c, dependency) ==
    LET existing == get_provider(c.providers, dependency)
        st == get_sequence_type(dependency.type)
    IN  IF existing.kind = "ambiguous"
        THEN Raise(c, "AmbiguousDependencyException", None)
        ELSE IF existing.kind = "found"
        THEN get_instance(c, existing.provider)
        ELSE IF st.elem # None
        THEN LET e == get_elements(c,
                        get_providers(c.providers,
                            Dependency(dependency.name, st.elem, TRUE)),
                        1, <<>>)
             IN  Ret(Alloc(e.c, Obj(st.seq, EmptyKw, e.elements)),
                     Len(e.c.heap) + 1)
        ELSE Only({
                 IF result.err # None THEN result
                 ELSE Ret(add(result.c,
                              _SimpleProvider(dependency.name, dependency.type,
                                  Getter("const", result.val,
                                         NewFn(result.c.providers)))),
                          result.val)
                 : result \in {autowire(c, dependency.type, EmptyKw)} })

\* faulty loop: the provider lookup is made inside the try block, so that
\* its AmbiguousDependencyException is wrapped or swallowed like a failure
\* of resolve
autowire_deps_lookup_in_try(c, t, deps, k, kw) ==
    IF k > Len(deps)
    THEN [c |-> c, kw |-> kw, err |-> None, cause |-> None, at |-> 0]
    ELSE LET dep == deps[k]
             existing == get_provider(c.providers, dep)
         IN  IF dep.name \in DOMAIN kw
             THEN autowire_deps(c, t, deps, k + 1, kw)
             ELSE IF existing.kind = "found"
             THEN LET g == get_instance(c, existing.provider)
                  IN  autowire_deps(g.c, t, deps, k + 1,
                                    (dep.name :> g.val) @@ kw)
             ELSE Only({
                      IF auto.err = None
                      THEN autowire_deps(auto.c, t, deps, k + 1,
                                         (dep.name :> auto.val) @@ kw)
                      ELSE IF ~IsAutowiredException(auto.err)
                      THEN [c |-> auto.c, kw |-> kw, err |-> auto.err,
                            cause |-> auto.cause, at |-> k]
                      ELSE IF dep.required
                      THEN [c |-> auto.c, kw |-> kw,
                            err |-> "UnresolvableDependencyException",
                            cause |-> auto.err, at |-> k]
                      ELSE autowire_deps(auto.c, t, deps, k + 1, kw)
                      : auto \in {resolve(c, dep)} })

\* faulty loop: a failure of resolve is raised for a parameter that has a
\* default too
autowire_deps_strict(c, t, deps, k, kw) ==
    IF k > Len(deps)
    THEN [c |-> c, kw |-> kw, err |-> None, cause |-> None, at |-> 0]
    ELSE LET dep == deps[k]
             existing == get_provider(c.providers, dep)
         IN  IF dep.name \in DOMAIN kw
             THEN autowire_deps(c, t, deps, k + 1, kw)
             ELSE IF existing.kind = "ambiguous"
             THEN [c |-> c, kw |-> kw,
                   err |-> "AmbiguousDependencyException", cause |-> None,
                   at |-> k]
             ELSE IF existing.kind = "found"
             THEN LET g == get_instance(c, existing.provider)
                  IN  autowire_deps(g.c, t, deps, k + 1,
                                    (dep.name :> g.val) @@ kw)
             ELSE Only({
                      IF auto.err = None
                      THEN autowire_deps(auto.c, t, deps, k + 1,
                                         (dep.name :> auto.val) @@ kw)
                      ELSE IF ~IsAutowiredException(auto.err)
                      THEN [c |-> auto.c, kw |-> kw, err |-> auto.err,
                            cause |-> auto.cause, at |-> k]
                      ELSE [c |-> auto.c, kw |-> kw,
                            err |-> "UnresolvableDependencyException",
                            cause |-> auto.err, at |-> k]
                      : auto \in {resolve(c, dep)} })

\* faulty loop: a parameter that was passed explicitly is looked up and
\* resolved like the others, and what the container gives replaces it
autowire_deps_explicit_ignored(c, t, deps, k, kw) ==
    IF k > Len(deps)
    THEN [c |-> c, kw |-> kw, err |-> None, cause |-> None, at |-> 0]
    ELSE LET dep == deps[k]
             existing == get_provider(c.providers, dep)
         IN  IF existing.kind = "ambiguous"
             THEN [c |-> c, kw |-> kw,
                   err |-> "AmbiguousDependencyException", cause |-> None,
                   at |-> k]
             ELSE IF existing.kind = "found"
             THEN LET g == get_instance(c, existing.provider)
                  IN  autowire_deps(g.c, t, deps, k + 1,
                                    (dep.name :> g.val) @@ kw)
             ELSE Only({
                      IF auto.err = None
                      THEN autowire_deps(auto.c, t, deps, k + 1,
                                         (dep.name :> auto.val) @@ kw)
                      ELSE IF ~IsAutowiredException(auto.err)
                      THEN [c |-> auto.c, kw |-> kw, err |-> auto.err,
                            cause |-> auto.cause, at |-> k]
                      ELSE IF dep.required
                      THEN [c |-> auto.c, kw |-> kw,
                            err |-> "UnresolvableDependencyException",
                            cause |-> auto.err, at |-> k]
                      ELSE autowire_deps(auto.c, t, deps, k + 1, kw)
                      : auto \in {resolve(c, dep)} })

\* the loop over the dependencies of t, from the k-th on; at is the index
\* of the dependency at which the loop raised, 0 when it completed
autowire_deps(c, t, deps, k, kw) ==
    IF k > Len(deps)
    THEN [c |-> c, kw |-> kw, err |-> None, cause |-> None, at |-> 0]
    ELSE LET dep == deps[k]
             existing == get_provider(c.providers, dep)
         IN  IF dep.name \in DOMAIN kw
             THEN autowire_deps(c, t, deps, k + 1, kw)
             ELSE IF existing.kind = "ambiguous"
             THEN [c |-> c, kw |-> kw,
                   err |-> "AmbiguousDependencyException", cause |-> None,
                   at |-> k]
             ELSE IF existing.kind = "found"
             THEN LET g == get_instance(c, existing.provider)
                  IN  autowire_deps(g.c, t, deps, k + 1,
                                    (dep.name :> g.val) @@ kw)
             ELSE Only({
                      IF auto.err = None
                      THEN autowire_deps(auto.c, t, deps, k + 1,
                                         (dep.name :> auto.val) @@ kw)
                      ELSE IF ~IsAutowiredException(auto.err)
                      THEN [c |-> auto.c, kw |-> kw, err |-> auto.err,
                            cause |-> auto.cause, at |-> k]
                      ELSE IF dep.required
                      THEN [c |-> auto.c, kw |-> kw,
                            err |-> "UnresolvableDependencyException",
                            cause |-> auto.err, at |-> k]
                      ELSE autowire_deps(auto.c, t, deps, k + 1, kw)
                      : auto \in {resolve(c, dep)} })

\* faulty autowire: what the constructor raises is passed on as it is
autowire_unwrapped(c, t, explicit_kw_args) ==
    IF ModuleOf(t) \in {"builtins", "typing", "dataclasses", "abc", "object"}
    THEN Raise(c, "IllegalAutoWireType", None)
    ELSE Only({
             IF r.err # None THEN Raise(r.c, r.err, r.cause)
             ELSE IF InitRaises(t)
             THEN Raise(r.c, InitException(t), None)
             ELSE Ret(Alloc(r.c, Obj(t, r.kw, <<>>)), Len(r.c.heap) + 1)
             : r \in {autowire_deps(c, t, _get_dependencies_for_type(t),
                                    1, explicit_kw_args)} })

\* faulty autowire: the module of the type is checked after its parameters
\* were resolved
autowire_late_module_check(c, t, explicit_kw_args) ==
    Only({
        IF r.err # None THEN Raise(r.c, r.err, r.cause)
        ELSE IF ModuleOf(t) \in {"builtins", "typing", "dataclasses", "abc",
                                 "object"}
        THEN Raise(r.c, "IllegalAutoWireType", None)
        ELSE IF InitRaises(t) /\ IsException(InitException(t))
        THEN Raise(r.c, "InstantiationError", InitException(t))
        ELSE IF InitRaises(t)
        THEN Raise(r.c, InitException(t), None)
        ELSE Ret(Alloc(r.c, Obj(t, r.kw, <<>>)), Len(r.c.heap) + 1)
        : r \in {autowire_deps(c, t, _get_dependencies_for_type(t),
                               1, explicit_kw_args)} })

\* faulty autowire: the exception of a parameter is raised without its cause
autowire_unchained(c, t, explicit_kw_args) ==
    IF ModuleOf(t) \in {"builtins", "typing", "dataclasses", "abc", "object"}
    THEN Raise(c, "IllegalAutoWireType", None)
    ELSE Only({
             IF r.err # None THEN Raise(r.c, r.err, None)
             ELSE IF InitRaises(t) /\ IsException(InitException(t))
             THEN Raise(r.c, "InstantiationError", InitException(t))
             ELSE IF InitRaises(t)
             THEN Raise(r.c, InitException(t), None)
             ELSE Ret(Alloc(r.c, Obj(t, r.kw, <<>>)), Len(r.c.heap) + 1)
             : r \in {autowire_deps(c, t, _get_dependencies_for_type(t),
                                    1, explicit_kw_args)} })

\* faulty autowire: the object is registered as a provider of its type
autowire_registered(c, t, explicit_kw_args) ==
    IF ModuleOf(t) \in {"builtins", "typing", "dataclasses", "abc", "object"}
    THEN Raise(c, "IllegalAutoWireType", None)
    ELSE Only({
             IF r.err # None THEN Raise(r.c, r.err, r.cause)
             ELSE IF InitRaises(t) /\ IsException(InitException(t))
             THEN Raise(r.c, "InstantiationError", InitException(t))
             ELSE IF InitRaises(t)
             THEN Raise(r.c, InitException(t), None)
             ELSE Ret(add(Alloc(r.c, Obj(t, r.kw, <<>>)),
                          _SimpleProvider(_camel_to_snake(t), t,
                              Getter("const", Len(r.c.heap) + 1,
                                     NewFn(r.c.providers)))),
                      Len(r.c.heap) + 1)
             : r \in {autowire_deps(c, t, _get_dependencies_for_type(t),
                                    1, explicit_kw_args)} })

autowire(c, t, explicit_kw_args) ==
    IF ModuleOf(t) \in {"builtins", "typing", "dataclasses", "abc", "object"}
    THEN Raise(c, "IllegalAutoWireType", None)
    ELSE Only({
             IF r.err # None THEN Raise(r.c, r.err, r.cause)
             ELSE IF InitRaises(t) /\ IsException(InitException(t))
             THEN Raise(r.c, "InstantiationError", InitException(t))
             ELSE IF InitRaises(t)
             THEN Raise(r.c, InitException(t), None)
             ELSE Ret(Alloc(r.c, Obj(t, r.kw, <<>>)), Len(r.c.heap) + 1)
             : r \in {autowire_deps(c, t, _get_dependencies_for_type(t),
                                    1, explicit_kw_args)} })

\* the argument of Container.remove when it is a provider name
Str(n) == [str |-> n]

\* isinstance(provider, Provider)
IsProvider(provider) == "getter" \in DOMAIN provider

\* faulty predicate: providers are compared by name alone
predicate_by_name(p, provider) ==
    p.name = IF IsProvider(provider) THEN provider.name ELSE provider.str

\* Container.remove, predicate: a provider argument is compared by the
\* equality of the frozen dataclass (name, type and getter), anything else
\* with the provider's name
predicate(p, provider) ==
    IF IsProvider(provider) THEN p = provider ELSE p.name = provider.str

\* faulty search: the loop goes on after a match, so that the last provider
\* the predicate accepts is taken
remove_index_last(ps, provider) ==
    IF \E i \in DOMAIN ps : predicate(ps[i], provider)
    THEN CHOOSE i \in DOMAIN ps :
            /\ predicate(ps[i], provider)
            /\ \A j \in (i + 1)..Len(ps) : ~predicate(ps[j], provider)
    ELSE 0

\* Container.remove: the index of the first provider the predicate accepts,
\* 0 when it accepts none
remove_index(ps, provider) ==
    IF \E i \in DOMAIN ps : predicate(ps[i], provider)
    THEN CHOOSE i \in DOMAIN ps :
            /\ predicate(ps[i], provider)
            /\ \A j \in 1..(i - 1) : ~predicate(ps[j], provider)
    ELSE 0

\* faulty pop: the provider is popped from a copy of the list
pop_on_copy(ps, i) == ps

pop(ps, i) ==
    [ j \in 1..(Len(ps) - 1) |-> IF j < i THEN ps[j] ELSE ps[j + 1] ]

remove(ps, provider) ==
    LET i == remove_index(ps, provider) IN IF i = 0 THEN ps ELSE pop(ps, i)


(***************************************************************************)
(* _context.py: the context classes the threads work on                    *)
(*                                                                         *)
(*     class TestContext(Context):                                         *)
(*         service: Service2 = autowired()                                 *)
(*         service1: Service1 = autowired(thread_local=True)               *)
(*                                                                         *)
(*     class TransientContext(Context):                                    *)
(*         service1: Service1 = autowired(transient=True)                  *)
(*         service2: Service2 = autowired()                                *)
(*                                                                         *)
(*     class BaseContext(Context):                                         *)
(*         service0: Service0 = provided()                                 *)
(*         service1: Service1 = autowired(eager=True)                      *)
(*         service2: Service2 = autowired()                                *)
(*         def __init__(self, service0: Service0 = None):                  *)
(*             if service0 is not None:                                    *)
(*                 self.service0 = service0                                *)
(*                                                                         *)
(*     class DerivedContext(BaseContext):                                  *)
(*         pass                                                            *)
(*                                                                         *)
(*     class CycleContext(Context):                                        *)
(*         cycle_a: CycleA = autowired()                                   *)
(*         cycle_b: CycleB = autowired()                                   *)
(*                                                                         *)
(*     class HiddenContext(Context):                                       *)
(*         a: A = autowired()                                              *)
(*         b: B = autowired()                                              *)
(*                                                                         *)
(*     class BothContext(Context):                                         *)
(*         service1: Service1 = autowired(transient=True,                  *)
(*                                        thread_local=True)               *)
(*                                                                         *)
(* Service2 needs a Service1, which the context's container takes from the *)
(* field service1; Service1 needs a Service0, which the container takes    *)
(* from the field service0 where there is one and auto-constructs          *)
(* otherwise.  CycleA needs a CycleB and CycleB needs a CycleA.            *)
(***************************************************************************)
Threads == 1..NumThreads

ContextClasses ==
    { "TestContext", "TransientContext", "BaseContext", "DerivedContext",
      "CycleContext", "UnderscoreContext", "ProvidedContext",
      "PartlyAnnotatedContext", "UnannotatedPropertyContext",
      "RegisterContext", "SubtypeContext", "SelectorContext",
      "BothContext", "HiddenContext" }

\* autowired(eager=..., transient=..., thread_local=...) on a field annotated
\* with t
_Autowired(t, eager, transient, thread_local) ==
    [ kind |-> "autowired", type |-> t, eager |-> eager,
      transient |-> transient, thread_local |-> thread_local ]

\* provided() on a field annotated with t
_Provided(t) ==
    [ kind |-> "provided", type |-> t, eager |-> FALSE, transient |-> FALSE,
      thread_local |-> FALSE ]

\* a property of the class, of kind "cached_property", "property" or
\* "thread_local_cached_property", whose function returns
\* self.autowire(body) and is annotated with the return type t (None when
\* it has no annotation)
Property(kind, body, t) ==
    [ kind |-> kind, type |-> t, eager |-> FALSE, transient |-> FALSE,
      thread_local |-> FALSE, body |-> body ]

\* class_dict of a context class: the fields the class body declares, in
\* the order of the declarations
class_dict(cls) ==
    CASE cls = "TestContext"      -> <<"service", "service1">>
      [] cls = "TransientContext" -> <<"service1", "service2">>
      [] cls = "BothContext"      -> <<"service1">>
      [] cls = "HiddenContext"    -> <<"a", "b">>
      [] cls = "BaseContext"      -> <<"service0", "service1", "service2">>
      [] cls = "DerivedContext"   -> << >>
      [] cls = "CycleContext"     -> <<"cycle_a", "cycle_b">>
      [] cls = "UnderscoreContext" ->
             <<"__service0__", "_service1", "_service2", "service3",
               "service_b">>
      [] cls = "ProvidedContext"  -> <<"service0", "service1">>
      [] cls = "PartlyAnnotatedContext"     -> <<"service1", "service2">>
      [] cls = "UnannotatedPropertyContext" -> <<"service0", "service1">>
      [] cls = "RegisterContext"  -> <<"service1", "service4">>
      [] cls = "SubtypeContext"   -> <<"other", "service_b">>
      [] cls = "SelectorContext"  ->
             <<"a", "b", "config", "n", "s", "service0">>

\* the base context class of a context class
ContextBase(cls) == IF cls = "DerivedContext" THEN "BaseContext" ELSE None

\* class_dict.get("__init__", None)
original_init(cls) == cls = "BaseContext"

\* inspect.getmembers(type(self)): the properties of the class and of its
\* bases, sorted by name
MembersOf(cls) ==
    IF class_dict(cls) # << >> THEN class_dict(cls)
    ELSE IF ContextBase(cls) # None THEN class_dict(ContextBase(cls))
    ELSE << >>

\* the class attribute behind a field, found on the class or on its base
DeclOf(cls, f) ==
    CASE cls = "TestContext" /\ f = "service" ->
             _Autowired("Service2", FALSE, FALSE, FALSE)
      [] cls = "TestContext" /\ f = "service1" ->
             _Autowired("Service1", FALSE, FALSE, TRUE)
      [] cls = "TransientContext" /\ f = "service1" ->
             _Autowired("Service1", FALSE, TRUE, FALSE)
      [] cls = "BothContext" /\ f = "service1" ->
             _Autowired("Service1", FALSE, TRUE, TRUE)
      [] cls = "HiddenContext" /\ f = "a" ->
             _Autowired("A", FALSE, FALSE, FALSE)
      [] cls = "HiddenContext" /\ f = "b" ->
             _Autowired("B", FALSE, FALSE, FALSE)
      [] cls = "TransientContext" /\ f = "service2" ->
             _Autowired("Service2", FALSE, FALSE, FALSE)
      [] cls \in {"BaseContext", "DerivedContext"} /\ f = "service0" ->
             _Provided("Service0")
      [] cls \in {"BaseContext", "DerivedContext"} /\ f = "service1" ->
             _Autowired("Service1", TRUE, FALSE, FALSE)
      [] cls \in {"BaseContext", "DerivedContext"} /\ f = "service2" ->
             _Autowired("Service2", FALSE, FALSE, FALSE)
      [] cls = "CycleContext" /\ f = "cycle_a" ->
             _Autowired("CycleA", FALSE, FALSE, FALSE)
      [] cls = "CycleContext" /\ f = "cycle_b" ->
             _Autowired("CycleB", FALSE, FALSE, FALSE)
      [] cls = "UnderscoreContext" /\ f = "__service0__" ->
             Property("cached_property", "Service0", "Service0")
      [] cls = "UnderscoreContext" /\ f = "_service1" ->
             _Autowired("Service1", FALSE, FALSE, FALSE)
      [] cls = "UnderscoreContext" /\ f = "_service2" ->
             Property("cached_property", "Service2", "Service2")
      [] cls = "UnderscoreContext" /\ f = "service3" ->
             Property("property", "Service3", "Service3")
      [] cls = "UnderscoreContext" /\ f = "service_b" ->
             Property("thread_local_cached_property", "ServiceB", "ServiceB")
      [] cls = "ProvidedContext" /\ f = "service0" ->
             _Provided("Service0")
      [] cls = "ProvidedContext" /\ f = "service1" ->
             _Autowired("Service1", FALSE, FALSE, FALSE)
      [] cls = "PartlyAnnotatedContext" /\ f = "service1" ->
             _Autowired("Service1", FALSE, FALSE, FALSE)
      [] cls = "PartlyAnnotatedContext" /\ f = "service2" ->
             _Autowired(None, FALSE, FALSE, FALSE)
      [] cls = "UnannotatedPropertyContext" /\ f = "service0" ->
             _Autowired("Service0", FALSE, FALSE, FALSE)
      [] cls = "UnannotatedPropertyContext" /\ f = "service1" ->
             Property("cached_property", "Service1", None)
      [] cls = "RegisterContext" /\ f = "service1" ->
             _Autowired("Service1", FALSE, FALSE, FALSE)
      [] cls = "RegisterContext" /\ f = "service4" ->
             _Autowired("Service4", FALSE, FALSE, FALSE)
      [] cls = "SubtypeContext" /\ f = "other" ->
             _Autowired("OtherService", FALSE, FALSE, FALSE)
      [] cls = "SubtypeContext" /\ f = "service_b" ->
             Property("cached_property", "ServiceB", "ServiceB")
      [] cls = "SelectorContext" /\ f = "config" ->
             _Provided("Config")
      [] cls = "SelectorContext" /\ f \in {"a", "b", "n", "s"} ->
             _Autowired("ServiceD", FALSE, FALSE, FALSE)
      [] cls = "SelectorContext" /\ f = "service0" ->
             _Autowired("Service0", FALSE, FALSE, FALSE)

\* the names of the fields of all context classes
FieldNames ==
    UNION { { class_dict(cls)[i] : i \in DOMAIN class_dict(cls) } :
            cls \in ContextClasses }

\* the properties of the class of the context
ContextFields == MembersOf(ctx.cls)

\* the fields of the context
FieldsOf == { ContextFields[i] : i \in DOMAIN ContextFields }

\* the class attribute behind a field of the context
Decl(f) == DeclOf(ctx.cls, f)

\* the subsequence of the fields in fs that satisfy the test of the
\* metaclass: "autowired" (isinstance _Autowired), "eager" (_Autowired and
\* eager) or "provided" (isinstance _Provided)
RECURSIVE SelectFields(_, _, _)
SelectFields(cls, fs, test) ==
    IF fs = << >> THEN << >>
    ELSE LET d == DeclOf(cls, Head(fs))
             rest == SelectFields(cls, Tail(fs), test)
         IN  IF \/ test = "autowired" /\ d.kind = "autowired"
                \/ test = "eager" /\ d.kind = "autowired" /\ d.eager
                \/ test = "provided" /\ d.kind = "provided"
             THEN <<Head(fs)>> \o rest
             ELSE rest

\* the lists new_init works on: computed by the metaclass from the
\* class_dict of the class itself
autowired_fields(cls) == SelectFields(cls, class_dict(cls), "autowired")

eager_fields(cls) == SelectFields(cls, class_dict(cls), "eager")

provided_fields(cls) == SelectFields(cls, class_dict(cls), "provided")

\* annotations.get(field_name)
_get_field_type(f) == Decl(f).type

\* faulty getter: the value that __dict__ holds for the property when the
\* container is computed is captured
_PropertyGetter_captured(f, fn) ==
    IF ctx.dict[f] # 0 THEN Getter("const", ctx.dict[f], fn)
    ELSE [kind |-> "prop", obj |-> 0, fn |-> fn, property |-> f]

\* _PropertyGetter(ctx, prop): a supplier that reads the property off the
\* context
_PropertyGetter(f, fn) ==
    [kind |-> "prop", obj |-> 0, fn |-> fn, property |-> f]

\* the spelling of a property name: its leading underscores one by one,
\* then the rest of the name
Spelling(f) ==
    CASE f = "__service0__" -> <<"_", "_", "service0__">>
      [] f = "_service0__"  -> <<"_", "service0__">>
      [] f = "_service1"    -> <<"_", "service1">>
      [] f = "_service2"    -> <<"_", "service2">>
      [] OTHER              -> <<f>>

\* the names that the properties and the providers of the contexts have
Names ==
    FieldNames \cup {"_service0__", "service0__", "service1", "service2"}

\* the name with the given spelling
Join(chars) == CHOOSE n \in Names : Spelling(n) = chars

\* faulty lstrip: one leading underscore is removed
lstrip_once(chars) ==
    IF chars # <<>> /\ Head(chars) = "_" THEN Tail(chars) ELSE chars

\* str.lstrip("_") on the spelling of a name: leading underscores are
\* removed as long as there is one
RECURSIVE lstrip(_)
lstrip(chars) ==
    IF chars # <<>> /\ Head(chars) = "_" THEN lstrip(Tail(chars)) ELSE chars

\* prop.name.lstrip("_")
lstrip_underscore(f) == Join(lstrip(Spelling(f)))

\* the keyword arguments in the declaration of an auto-wired field, in
\* their order: the parameter and the expression given for it, an
\* attribute path on another field of the class body
kw_args(cls, f) ==
    CASE cls = "SelectorContext" /\ f = "a" ->
             << [param |-> "foo", field |-> "config",
                 path |-> <<"inner", "foo">>] >>
      [] cls = "SelectorContext" /\ f = "b" ->
             << [param |-> "foo", field |-> "config", path |-> <<"wrong">>] >>
      [] cls = "SelectorContext" /\ f = "n" ->
             << [param |-> "foo", field |-> "config", path |-> <<"name">>] >>
      [] cls = "SelectorContext" /\ f = "s" ->
             << [param |-> "foo", field |-> "service0", path |-> << >>] >>
      [] OTHER -> << >>

\* the attributes that normal lookup finds on an _Autowired or _Provided
\* object while the class body runs, so that __getattr__ is not called:
\* the class attribute name (None until the metaclass sets it), parent and
\* key (None, set by __init__), the method select and the arguments of
\* autowired
OwnAttributes(kind) ==
    {"name", "parent", "key", "select"}
    \cup IF kind = "autowired"
         THEN {"eager", "transient", "thread_local", "kw_args_factory",
               "kw_args"}
         ELSE {}

\* the value of the expression field.path[1]. ... .path[n] in the class
\* body: a _ContextValueSelector where every attribute access went to
\* __getattr__, and otherwise what normal lookup found; of these only the
\* None of name, parent and key is told apart from other objects
Expression(cls, e) ==
    IF e.path # << >> /\ e.path[1] \in OwnAttributes(DeclOf(cls, e.field).kind)
    THEN [selector |-> FALSE, field |-> None, path |-> << >>]
    ELSE [selector |-> TRUE, field |-> e.field, path |-> e.path]

\* the function of a property returns self.autowire(body); an auto-wired
\* field is built by self.autowire(field_type, ...)
AutowiredType(f) ==
    IF Decl(f).kind \in {"autowired", "provided"} THEN _get_field_type(f)
    ELSE Decl(f).body

\* faulty check: only the first property of the class is looked at
Untyped_first_only ==
    ContextFields # << >> /\ Decl(ContextFields[1]).type = None

\* _get_obj_properties and the loop of Context.container raise
\* MissingTypeAnnotation when a field has no annotation or a property
\* neither a return type nor an annotation
Untyped == \E i \in DOMAIN ContextFields : Decl(ContextFields[i]).type = None

\* the names that sort before "container"
BeforeContainer(f) ==
    f \in {"__service0__", "_service1", "_service2", "a", "b", "config"}

AfterContainer(f) == ~BeforeContainer(f)

\* _get_obj_properties: the names of the properties of the class of the
\* context in the order of inspect.getmembers, among them the cached
\* property container of Context
_get_obj_properties ==
    SelectSeq(ContextFields, BeforeContainer) \o <<"container">>
        \o SelectSeq(ContextFields, AfterContainer)

\* if prop.name == "container": continue
NotContainer(f) == f # "container"

\* Context.container: one supplier-backed provider per property
Projection ==
    LET props == SelectSeq(_get_obj_properties, NotContainer)
    IN  [ i \in DOMAIN props |->
            _SimpleProvider(lstrip_underscore(props[i]),
                            _get_field_type(props[i]),
                            _PropertyGetter(props[i], i)) ]

\* a context of class cls: dict is the instance __dict__ entry of each
\* field (0: absent, the class attribute shows), storage tells whether the
\* threading.local of a field exists and tls is its value in each thread
\* (0: no value), locks is _autowire_locks (0: free, else the holder),
\* conts are the containers built for the context and container is the one
\* that __dict__ holds (0: none).  locked_cp tells whether
\* functools.cached_property computes under a lock (Python 3.8 to 3.11) or
\* not (Python 3.12).  phase is "new" before the constructor call, "init"
\* during it, "ready" after it returned and "failed" after it raised.
Context(cls, locked, phase) ==
    [ cls       |-> cls,
      phase     |-> phase,
      dict      |-> [f \in FieldNames |-> 0],
      storage   |-> [f \in FieldNames |-> FALSE],
      tls       |-> [f \in FieldNames |-> [t \in Threads |-> 0]],
      locks     |-> [f \in FieldNames |-> 0],
      conts     |-> <<>>,
      container |-> 0,
      locked_cp |-> locked ]

\* the TestContext after new_init
NewContext(locked) == Context("TestContext", locked, "ready")

\* the object behind the class attribute of a provided field
ClassAttr == CHOOSE i \in DOMAIN heap : heap[i].type = "_Provided"

\* isinstance(value, _Provided)
IsPlaceholder(v) == v \in DOMAIN heap /\ heap[v].type = "_Provided"

\* what a call hands to its caller: nothing yet, a value, or an exception
NoRet == [kind |-> "none", val |-> 0, err |-> None, cause |-> None]

RetVal(v) == [kind |-> "val", val |-> v, err |-> None, cause |-> None]

RetExc(e, cause) == [kind |-> "exc", val |-> 0, err |-> e, cause |-> cause]

NoDep == Dependency(None, None, TRUE)

\* the frames of a thread's call stack: a call of __getattribute__ for a
\* field, of Container.autowire for a class, of Container.resolve for a
\* dependency; pc is the place the call has reached
Frame(kind, pc) ==
    [ kind |-> kind, pc |-> pc, field |-> None, cont |-> 0, type |-> None,
      dep |-> NoDep, k |-> 0, kw |-> EmptyKw, val |-> 0, err |-> None,
      cause |-> None, how |-> None ]

GetattrFrame(f) == [Frame("getattr", "read") EXCEPT !.field = f]

\* a call of the constructor of the context with the argument arg (0: none)
InitFrame(arg) == [Frame("init", "locks") EXCEPT !.val = arg, !.k = 1]

AutowireFrame(c, t, kw) ==
    [Frame("autowire", "enter") EXCEPT !.cont = c, !.type = t, !.k = 1,
                                       !.kw = kw]

ResolveFrame(c, dep) ==
    [Frame("resolve", "lookup") EXCEPT !.cont = c, !.dep = dep]

IdleThreads ==
    [ t \in Threads |-> [stack |-> <<>>, ret |-> NoRet, reads |-> 0] ]

\* reads: per thread, the reads of fields that completed, in order;
\* made: the objects that were auto-wired as the value of a field;
\* trace: the steps of the constructor call of the context, in order
EmptyLog == [reads |-> [t \in Threads |-> <<>>], made |-> {}, trace |-> <<>>]


(***************************************************************************)
(* The container as a state machine: one action per public method, called  *)
(* by a single client.  last records the latest call: its arguments, the   *)
(* provider list and heap size before it (pre, preN), its outcome, and in  *)
(* rep the outcome of the call before it when that was the same call with  *)
(* the same arguments, and in at the index of the constructor parameter at *)
(* which an autowire call raised.  pure tells that only resolve, autowire  *)
(* and get_provider were called so far.  rt follows the call sequence      *)
(* add(X); [resolve(type_of(X))]; remove(name_of(X)); resolve(type_of(X)). *)
(***************************************************************************)
\* a bare type is normalised to a required dependency named in snake case
AsDependency(t) == Dependency(_camel_to_snake(t), t, TRUE)

NoRep == [valid |-> FALSE, val |-> 0, err |-> None, via |-> None]

NoRt == [phase |-> "none", x |-> 0, name |-> None, type |-> None,
         alone |-> FALSE]

Call(op, n, t, kw, r, via, rep) ==
    [ op |-> op, name |-> n, type |-> t, kw |-> kw,
      val |-> r.val, err |-> r.err, cause |-> r.cause,
      via |-> via, rep |-> rep, pre |-> providers, preN |-> Len(heap),
      at |-> 0 ]

Done(v) == [val |-> v, err |-> None, cause |-> None]

Rep(op, n, t) ==
    IF last.op = op /\ last.name = n /\ last.type = t
    THEN [valid |-> TRUE, val |-> last.val, err |-> last.err, via |-> last.via]
    ELSE NoRep

Container == [providers |-> providers, heap |-> heap]

Init ==
    /\ providers = <<>>
    /\ heap = <<>>
    /\ last = [ op |-> "init", name |-> None, type |-> None, kw |-> EmptyKw,
                val |-> 0, err |-> None, cause |-> None, via |-> None,
                rep |-> NoRep, pre |-> <<>>, preN |-> 0, at |-> 0 ]
    /\ rt = NoRt
    /\ pure = TRUE
    /\ steps = 0
    /\ ctx = NewContext(TRUE)
    /\ th = IdleThreads
    /\ log = EmptyLog

\* container.add(Provider.from_instance(X, n)) for a new object X of class t
\* built by the client; n = None is container.add(X)
AddInstance(t, n) ==
    LET x == Len(heap) + 1
        name == IF n = None THEN _camel_to_snake(t) ELSE n
        c == add(Alloc(Container, Obj(t, EmptyKw, <<>>)),
                 _SimpleProvider(name, t,
                                 Getter("const", x, NewFn(providers))))
    IN  /\ steps < MaxSteps
        /\ steps' = steps + 1
        /\ providers' = c.providers
        /\ heap' = c.heap
        /\ last' = Call("add", name, t, EmptyKw, Done(x), None, NoRep)
        /\ rt' = [ phase |-> "added", x |-> x, name |-> name, type |-> t,
                   alone |-> \A i \in DOMAIN providers :
                                /\ providers[i].name # name
                                /\ ~is_subtype(providers[i].type, t) ]
        /\ pure' = FALSE
        /\ UNCHANGED ctxvars

\* container.add(Provider.from_supplier(supplier, t)) for a supplier that
\* returns t() on every call
AddSupplier(t) ==
    LET c == add(Container,
                 _SimpleProvider(_camel_to_snake(t), t,
                                 Getter("new", 0, NewFn(providers))))
    IN  /\ steps < MaxSteps
        /\ steps' = steps + 1
        /\ providers' = c.providers
        /\ heap' = c.heap
        /\ last' = Call("add_supplier", _camel_to_snake(t), t, EmptyKw,
                        Done(0), None, NoRep)
        /\ rt' = NoRt
        /\ pure' = FALSE
        /\ UNCHANGED ctxvars

\* container.remove(n) for a provider name n
RemoveName(n) ==
    /\ steps < MaxSteps
    /\ steps' = steps + 1
    /\ providers' = remove(providers, Str(n))
    /\ heap' = heap
    /\ last' = Call("remove", n, None, EmptyKw, Done(0), None, NoRep)
    /\ rt' = IF rt.phase \in {"added", "between"} /\ n = rt.name
             THEN [rt EXCEPT !.phase = "removed"]
             ELSE NoRt
    /\ pure' = FALSE
    /\ UNCHANGED ctxvars

\* container.remove(p) for a provider p
RemoveProvider(p) ==
    /\ steps < MaxSteps
    /\ steps' = steps + 1
    /\ providers' = remove(providers, p)
    /\ heap' = heap
    /\ last' = Call("remove_provider", p.name, p.type, EmptyKw, Done(0), None,
                    NoRep) @@ [arg |-> p]
    /\ rt' = NoRt
    /\ pure' = FALSE
    /\ UNCHANGED ctxvars

\* container.add(p) for a provider p the client holds
AddProvider(p) ==
    /\ steps < MaxSteps
    /\ steps' = steps + 1
    /\ providers' = add(Container, p).providers
    /\ heap' = heap
    /\ last' = Call("add_provider", p.name, p.type, EmptyKw, Done(0), None,
                    NoRep) @@ [arg |-> p]
    /\ rt' = NoRt
    /\ pure' = FALSE
    /\ UNCHANGED ctxvars

\* container.get_provider(dep)
GetProvider(dep) ==
    LET existing == get_provider(providers, dep)
    IN  /\ steps < MaxSteps
        /\ steps' = steps + 1
        /\ last' = Call("get_provider", dep.name, dep.type, EmptyKw,
                        IF existing.kind = "ambiguous"
                        THEN Raise(Container, "AmbiguousDependencyException",
                                   None)
                        ELSE Ret(Container, existing.provider.getter.fn),
                        existing.kind, NoRep)
        /\ UNCHANGED <<providers, heap, pure, ctxvars>>
        /\ rt' = NoRt

\* how resolve(dep) obtains its result in the current container
Via(dep) ==
    LET existing == get_provider(providers, dep)
    IN  IF existing.kind = "ambiguous" THEN None
        ELSE IF existing.kind = "found"
        THEN IF existing.provider.getter.kind = "const" THEN "singleton"
             ELSE "supplier"
        ELSE IF get_sequence_type(dep.type).elem # None THEN "collective"
        ELSE "auto"

\* container.resolve(dep), r being what the call does to the container
ResolveCall(dep, r) ==
    /\ steps < MaxSteps
    /\ steps' = steps + 1
    /\ providers' = r.c.providers
    /\ heap' = r.c.heap
    /\ last' = Call("resolve", dep.name, dep.type, EmptyKw, r, Via(dep),
                    Rep("resolve", dep.name, dep.type))
    /\ rt' = IF dep = AsDependency(rt.type)
                /\ rt.phase \in {"added", "between"}
             THEN [rt EXCEPT !.phase = "between"]
             ELSE IF dep = AsDependency(rt.type) /\ rt.phase = "removed"
             THEN [rt EXCEPT !.phase = "done"]
             ELSE NoRt
    /\ pure' = pure
    /\ UNCHANGED ctxvars

Resolve(dep) == ResolveCall(dep, resolve(Container, dep))

\* the index of the constructor parameter at which autowire(t, **kw) raises
\* in the current container, 0 when none does
FailedAt(t, kw) ==
    IF ModuleOf(t) \in {"builtins", "typing", "dataclasses", "abc", "object"}
    THEN 0
    ELSE autowire_deps(Container, t, _get_dependencies_for_type(t), 1, kw).at

\* container.autowire(t, **kw), r being what the call does to the container
\* and at the parameter at which it raises
AutowireCall(t, kw, r, at) ==
    /\ steps < MaxSteps
    /\ steps' = steps + 1
    /\ providers' = r.c.providers
    /\ heap' = r.c.heap
    /\ last' = [ Call("autowire", None, t, kw, r, None,
                       Rep("autowire", None, t))
                  EXCEPT !.at = at ]
    /\ rt' = NoRt
    /\ pure' = pure
    /\ UNCHANGED ctxvars

Autowire(t, kw) ==
    AutowireCall(t, kw, autowire(Container, t, kw), FailedAt(t, kw))

(***************************************************************************)
(* Spec: a client that registers instances and suppliers, removes          *)
(* providers by name and resolves dependencies.                            *)
(***************************************************************************)
\* the instances the client registers: class and provider name
AddCalls ==
    { <<"Service0", None>>, <<"Service0", "named_component">>,
      <<"ServiceB", None>>, <<"ServiceX", None>> }

\* classes the client registers a per-call supplier for
SupplierClasses == {"Service0"}

RemoveNames == {"service0", "named_component", "service_x"}

ResolveDeps ==
    { AsDependency(t) : t \in { "Service0", "Service1", "Service2",
                                "Service3", "ServiceA", "ServiceC",
                                "ServiceX", "Node" } }
    \cup { Dependency("named_component", "Service0", TRUE),
           Dependency("a", "List[ServiceA]", TRUE) }

Next ==
    \/ \E a \in AddCalls : AddInstance(a[1], a[2])
    \/ \E t \in SupplierClasses : AddSupplier(t)
    \/ \E n \in RemoveNames : RemoveName(n)
    \/ \E dep \in ResolveDeps : Resolve(dep)

Spec == Init /\ [][Next]_vars

(***************************************************************************)
(* SpecLookup: a client that registers instances and looks providers up.   *)
(***************************************************************************)
LookupAddCalls ==
    { <<"Service0", None>>, <<"Service0", "named_component">>,
      <<"ServiceA", None>>, <<"ServiceB", None>> }

LookupDeps ==
    { Dependency("service0", "Service0", TRUE),
      Dependency("named_component", "Service0", TRUE),
      Dependency("service_a", "ServiceA", TRUE),
      Dependency("service_b", "ServiceB", TRUE),
      Dependency("arg", "object", TRUE) }

NextLookup ==
    \/ \E a \in LookupAddCalls : AddInstance(a[1], a[2])
    \/ \E dep \in LookupDeps : GetProvider(dep)

SpecLookup == Init /\ [][NextLookup]_vars

(***************************************************************************)
(* SpecAutowire: a client that registers instances and autowires classes.  *)
(***************************************************************************)
AutowireAddCalls ==
    { <<"Service0", None>>, <<"Service1", None>>,
      <<"Service1", "service1_b">>, <<"ServiceB", None>>, <<"str", None>> }

AutowireClasses == {"Service2", "Service4", "ServiceX", "OtherService"}

\* the keyword arguments the client passes to autowire: none, or one
\* parameter bound to the object its previous call gave it
ExplicitKwArgs(t) ==
    {EmptyKw} \cup
    { (d.name :> last.val) :
        d \in { dd \in { _get_dependencies_for_type(t)[i] :
                            i \in DOMAIN _get_dependencies_for_type(t) } :
                  last.op \in {"add", "autowire"} /\ last.val # 0 } }

NextAutowire ==
    \/ \E a \in AutowireAddCalls : AddInstance(a[1], a[2])
    \/ \E t \in AutowireClasses : \E kw \in ExplicitKwArgs(t) : Autowire(t, kw)

SpecAutowire == Init /\ [][NextAutowire]_vars

(***************************************************************************)
(* SpecSequence: a client that registers plugins, lists and tuples and     *)
(* resolves list and tuple types.                                          *)
(***************************************************************************)
SequenceAddCalls ==
    { <<"ServiceA", None>>, <<"ServiceB", None>>, <<"Service0", None>>,
      <<"list", None>>, <<"tuple", None>> }

\* classes the client registers a per-call supplier for
SequenceSupplierClasses == {"ServiceA"}

SequenceDeps ==
    { Dependency("plugins", "List[ServiceA]", TRUE),
      Dependency("plugins", "Tuple[ServiceA, ...]", TRUE),
      Dependency("plugins", "Tuple[ServiceA]", TRUE),
      AsDependency("TupleService") }

NextSequence ==
    \/ \E a \in SequenceAddCalls : AddInstance(a[1], a[2])
    \/ \E t \in SequenceSupplierClasses : AddSupplier(t)
    \/ \E dep \in SequenceDeps : Resolve(dep)

SpecSequence == Init /\ [][NextSequence]_vars

(***************************************************************************)
(* SpecFailures: a client that autowires classes whose constructor raises  *)
(* and classes of foundational modules.                                    *)
(***************************************************************************)
FailureAddCalls == { <<"Service0", None>>, <<"str", None>> }

FailureClasses ==
    { "TestService", "ExitService", "TestUser", "ExitUser", "str",
      "InitVar", "ServiceX", "Service2" }

NextFailures ==
    \/ \E a \in FailureAddCalls : AddInstance(a[1], a[2])
    \/ \E t \in FailureClasses : Autowire(t, EmptyKw)

SpecFailures == Init /\ [][NextFailures]_vars

(***************************************************************************)
(* SpecRemove: a client that registers instances and suppliers, keeps the  *)
(* providers it registered, builds further providers for the same          *)
(* instances and suppliers' types with functions of its own, and removes   *)
(* providers by provider object.                                           *)
(***************************************************************************)
RemoveAddCalls == { <<"Service0", None>>, <<"ServiceB", None>> }

\* Provider.from_instance or from_supplier called again with the name and
\* type of a registered provider: the getter is a new function
Rebuilt(p) ==
    _SimpleProvider(p.name, p.type, [p.getter EXCEPT !.fn = NewFn(providers)])

\* the providers the client calls remove with
RemoveArgs ==
    { providers[i] : i \in DOMAIN providers }
    \cup { Rebuilt(providers[i]) : i \in DOMAIN providers }

NextRemove ==
    \/ \E a \in RemoveAddCalls : AddInstance(a[1], a[2])
    \/ \E t \in SupplierClasses : AddSupplier(t)
    \/ \E i \in DOMAIN providers : AddProvider(providers[i])
    \/ \E p \in RemoveArgs : RemoveProvider(p)

SpecRemove == Init /\ [][NextRemove]_vars

(***************************************************************************)
(* SpecRemoveAny: the same client, which removes providers by name too.    *)
(***************************************************************************)
NextRemoveAny ==
    \/ NextRemove
    \/ \E n \in RemoveNames : RemoveName(n)

SpecRemoveAny == Init /\ [][NextRemoveAny]_vars

(***************************************************************************)
(* The Container class that the package exports (autowired/__init__.py):   *)
(* its add looks for a registered provider of the same name first.         *)
(***************************************************************************)
\* Container.add of autowired/__init__.py
add_exported(c, p) ==
    IF \E i \in DOMAIN c.providers : c.providers[i].name = p.name
    THEN Raise(c, "ProviderConflictException", None)
    ELSE Ret([c EXCEPT !.providers = Append(@, p)], 0)

\* autowired.Container.add(Provider.from_instance(X, n)) for a new object X
\* of class t built by the client; n = None is add(X)
AddExported(t, n) ==
    LET x == Len(heap) + 1
        name == IF n = None THEN _camel_to_snake(t) ELSE n
        p == _SimpleProvider(name, t, Getter("const", x, NewFn(providers)))
    IN  \E r \in {add_exported(Alloc(Container, Obj(t, EmptyKw, <<>>)), p)} :
            /\ steps < MaxSteps
            /\ steps' = steps + 1
            /\ providers' = r.c.providers
            /\ heap' = r.c.heap
            /\ last' = Call("add", name, t, EmptyKw, r, None, NoRep)
                         @@ [arg |-> p]
            /\ rt' = NoRt
            /\ pure' = FALSE
            /\ UNCHANGED ctxvars

(***************************************************************************)
(* SpecExported: a client of the exported Container that registers         *)
(* instances, two of them under one name, and removes providers by name.   *)
(***************************************************************************)
NextExported ==
    \/ \E a \in AddCalls : AddExported(a[1], a[2])
    \/ \E n \in RemoveNames : RemoveName(n)

SpecExported == Init /\ [][NextExported]_vars

(***************************************************************************)
(* SpecParams: a client that registers instances, autowires classes whose  *)
(* constructor has a parameter without annotation, a parameter with a      *)
(* default, an inherited constructor or a parameter that cannot be         *)
(* resolved, and resolves such classes.                                    *)
(***************************************************************************)
ParamAddCalls == { <<"Service0", None>>, <<"SomeClass", None>>,
                   <<"Dep", None>> }

ParamClasses ==
    { "UntypedService", "SomeService", "Service2", "Provider",
      "MixedProvider", "TwoBases", "PartService", "Service0" }

ParamDeps == { AsDependency(t) : t \in {"PartService", "SomeService",
                                        "Provider"} }

NextParams ==
    \/ \E a \in ParamAddCalls : AddInstance(a[1], a[2])
    \/ \E t \in ParamClasses : Autowire(t, EmptyKw)
    \/ \E dep \in ParamDeps : Resolve(dep)

SpecParams == Init /\ [][NextParams]_vars


(***************************************************************************)
(* Properties of the container                                             *)
(***************************************************************************)
\* the dependency of the latest resolve or get_provider call
LastDep == Dependency(last.name, last.type, TRUE)

\* indices of the providers of ps whose type is assignable to type t
Assignable(ps, t) == { i \in DOMAIN ps : is_subtype(ps[i].type, t) }

\* those of them that carry the name n
Named(ps, t, n) == { i \in Assignable(ps, t) : ps[i].name = n }

\* C2: get_provider(D) follows the ambiguity protocol: no provider
\* assignable to D.type gives not-found; exactly one gives that provider
\* whatever its name; two or more give the provider named D.name if exactly
\* one candidate carries that name, and AmbiguousDependencyException
\* otherwise, in particular when several candidates share the name D.name.
C2_AmbiguityProtocol ==
    last.op = "get_provider" =>
        LET cand == Assignable(providers, last.type)
            named == Named(providers, last.type, last.name)
        IN  /\ cand = {} => last.via = "none" /\ last.err = None
            /\ Cardinality(cand) = 1 =>
                  /\ last.via = "found" /\ last.err = None
                  /\ \A i \in cand : last.val = providers[i].getter.fn
            /\ Cardinality(cand) >= 2 /\ Cardinality(named) = 1 =>
                  /\ last.via = "found" /\ last.err = None
                  /\ \A i \in named : last.val = providers[i].getter.fn
            /\ Cardinality(cand) >= 2 /\ Cardinality(named) # 1 =>
                  last.err = "AmbiguousDependencyException"

\* three providers of one type, two of which share the requested name: the
\* lookup raised
C2_Witness ==
    /\ last.op = "get_provider"
    /\ Cardinality(Assignable(providers, last.type)) >= 3
    /\ Cardinality(Named(providers, last.type, last.name)) = 2
    /\ last.err = "AmbiguousDependencyException"

InjectedBefore ==
    { o \in 1..last.preN :
        \E owner \in 1..last.preN :
            \E p \in DOMAIN heap[owner].kw : heap[owner].kw[p] = o }

\* any two constructor arguments of the same class in the heap are the same
\* object
SharedInjection ==
    \A a, b \in DOMAIN heap :
        \A p \in DOMAIN heap[a].kw : \A q \in DOMAIN heap[b].kw :
            heap[heap[a].kw[p]].type = heap[heap[b].kw[q]].type
                => heap[a].kw[p] = heap[b].kw[q]

C9_RoundTrip ==
    /\ rt.phase = "between" => last.err = None /\ last.val = rt.x
    /\ rt.phase = "done" =>
          last.err = None /\ last.val # rt.x /\ last.val > last.preN

\* C9 (amended): the same on a container in which X's provider is the only
\* one that is named name_of(X) or assignable to type_of(X); the final
\* resolve never returns X: it auto-wires a fresh instance, or raises when
\* type_of(X) cannot be auto-wired.
C9_RoundTripAlone ==
    rt.alone =>
        /\ rt.phase = "between" => last.err = None /\ last.val = rt.x
        /\ rt.phase = "done" =>
              /\ last.val # rt.x
              /\ last.err = None => last.val > last.preN
              /\ last.err # None =>
                    autowire(Container, rt.type, EmptyKw).err # None

\* the whole round trip ran on such a container and ended with a fresh
\* instance
C9_Witness ==
    /\ rt.alone /\ rt.phase = "done"
    /\ last.err = None /\ last.val > last.preN /\ last.val # rt.x
    /\ heap[last.val].type = rt.type


(***************************************************************************)
(* Properties of autowire                                                  *)
(***************************************************************************)
\* the constructor parameters of the class of the latest autowire call
LastDeps == _get_dependencies_for_type(last.type)

\* the lookup of d among ps has several candidates and no name tie-break
DirectAmbiguous(ps, d) ==
    /\ Cardinality(Assignable(ps, d.type)) >= 2
    /\ Cardinality(Named(ps, d.type, d.name)) # 1

\* the index of the provider of ps that serves d: the only candidate, or the
\* only candidate named like d (empty when there is none)
Match(ps, d) ==
    IF Cardinality(Assignable(ps, d.type)) = 1 THEN Assignable(ps, d.type)
    ELSE IF Cardinality(Named(ps, d.type, d.name)) = 1
    THEN Named(ps, d.type, d.name)
    ELSE {}

IllegalModules == {"builtins", "typing", "dataclasses", "abc", "object"}

\* C5: a successful autowire(T) returns a new instance of T in which the
\* explicit arguments are kept and every other parameter is set to what the
\* container resolves for (parameter name, parameter type): the object of
\* the matching provider if there is one, otherwise a newly auto-wired
\* object of the parameter type that the container registered under the
\* parameter's name and type (a parameter is left out only if it has a
\* default).
C5_InjectsResolved ==
    (last.op = "autowire" /\ last.err = None) =>
        LET o == heap[last.val]
        IN  /\ last.val > last.preN
            /\ o.type = last.type
            /\ \A p \in DOMAIN last.kw :
                  p \in DOMAIN o.kw /\ o.kw[p] = last.kw[p]
            /\ \A k \in DOMAIN LastDeps :
                  LET d == LastDeps[k]
                  IN  d.name \notin DOMAIN last.kw =>
                        IF Match(last.pre, d) # {}
                        THEN /\ d.name \in DOMAIN o.kw
                             /\ \A i \in Match(last.pre, d) :
                                   o.kw[d.name] = last.pre[i].getter.obj
                        ELSE /\ d.required => d.name \in DOMAIN o.kw
                             /\ d.name \in DOMAIN o.kw =>
                                   /\ o.kw[d.name] > last.preN
                                   /\ heap[o.kw[d.name]].type = d.type
                                   /\ \E i \in DOMAIN providers :
                                         /\ i > Len(last.pre)
                                         /\ providers[i].name = d.name
                                         /\ providers[i].type = d.type
                                         /\ providers[i].getter.obj
                                                = o.kw[d.name]

\* Service4 was built from a newly auto-wired ServiceX and from the provider
\* named service1 among several Service1 providers
C5_Witness ==
    /\ last.op = "autowire" /\ last.err = None /\ last.type = "Service4"
    /\ last.kw = EmptyKw
    /\ heap[last.val].kw["x"] > last.preN
    /\ Cardinality(Assignable(last.pre, "Service1")) >= 2
    /\ heap[last.val].kw["service1"] <= last.preN

\* C6 (as claimed): whenever a required constructor parameter fails to
\* resolve during autowire(T), autowire raises UnresolvableDependency whose
\* cause is the underlying error.
C6_RequiredFailureWrapped ==
    (last.op = "autowire" /\ last.at # 0 /\ LastDeps[last.at].required) =>
        /\ last.err = "UnresolvableDependencyException"
        /\ last.cause # None

\* C6 (amended): when a required constructor parameter fails because its
\* type cannot be auto-constructed or because its own dependencies fail
\* (ambiguity among their providers included), autowire raises
\* UnresolvableDependency whose cause is the underlying error; when several
\* providers match the parameter itself with no name tie-break, autowire
\* raises AmbiguousDependency unwrapped.
C6_RequiredFailureChained ==
    (last.op = "autowire" /\ last.at # 0 /\ LastDeps[last.at].required) =>
        LET d == LastDeps[last.at]
        IN  IF DirectAmbiguous(providers, d)
            THEN /\ last.err = "AmbiguousDependencyException"
                 /\ last.cause = None
            ELSE /\ last.err = "UnresolvableDependencyException"
                 /\ Assignable(providers, d.type) = {}
                 /\ IF ModuleOf(d.type) \in IllegalModules
                    THEN last.cause = "IllegalAutoWireType"
                    ELSE /\ \E k \in DOMAIN _get_dependencies_for_type(d.type) :
                               _get_dependencies_for_type(d.type)[k].required
                         /\ last.cause \in
                               { "UnresolvableDependencyException",
                                 "AmbiguousDependencyException" }

\* a required parameter failed because its own dependency is ambiguous:
\* UnresolvableDependency caused by AmbiguousDependency
C6_Witness ==
    /\ last.op = "autowire" /\ last.at # 0 /\ LastDeps[last.at].required
    /\ last.err = "UnresolvableDependencyException"
    /\ last.cause = "AmbiguousDependencyException"

C8_OptionalNeverFails ==
    last.op = "autowire" =>
        /\ last.at # 0 => LastDeps[last.at].required
        /\ last.err = None =>
              \A k \in DOMAIN LastDeps :
                  LastDeps[k].required =>
                      LastDeps[k].name \in DOMAIN heap[last.val].kw

\* C8 (amended): a failure raised while resolving a parameter that has a
\* default (no provider and the type cannot be auto-constructed) is
\* swallowed and the parameter omitted, but autowire fails with
\* AmbiguousDependency when several providers match that parameter with no
\* name tie-break; no failure of a required parameter is swallowed.
C8_OptionalSwallowedUnlessAmbiguous ==
    last.op = "autowire" =>
        /\ (last.at # 0 /\ ~LastDeps[last.at].required) =>
              /\ last.err = "AmbiguousDependencyException"
              /\ last.cause = None
              /\ DirectAmbiguous(providers, LastDeps[last.at])
        /\ last.err = None =>
              \A k \in DOMAIN LastDeps :
                  LET d == LastDeps[k]
                  IN  /\ d.required => d.name \in DOMAIN heap[last.val].kw
                      /\ ( /\ ~d.required
                           /\ d.name \notin DOMAIN last.kw
                           /\ Assignable(providers, d.type) = {}
                           /\ ModuleOf(d.type) \in IllegalModules
                           /\ get_sequence_type(d.type).elem = None )
                            => d.name \notin DOMAIN heap[last.val].kw

\* Service2 was built without its defaulted str parameter, which no provider
\* serves
C8_Witness ==
    /\ last.op = "autowire" /\ last.err = None /\ last.type = "Service2"
    /\ last.kw = EmptyKw
    /\ "service1" \in DOMAIN heap[last.val].kw
    /\ "blabla" \notin DOMAIN heap[last.val].kw


(***************************************************************************)
(* Properties of sequence types                                            *)
(***************************************************************************)
\* the k-th smallest element of a set of indices
Nth(idx, k) == CHOOSE i \in idx : Cardinality({ j \in idx : j < i }) = k - 1

\* C15: when no registered provider satisfies the sequence type itself,
\* resolve of list of E (or variadic tuple of E) returns a new list (resp.
\* tuple) that holds one instance from every provider satisfying E, in
\* provider insertion order (the object of a singleton provider, a new
\* object of a per-call supplier), and the provider list is left as it was.
C15_CollectiveResolution ==
    ( /\ last.op = "resolve"
      /\ get_sequence_type(last.type).elem # None
      /\ Assignable(last.pre, last.type) = {} ) =>
        LET st == get_sequence_type(last.type)
            idx == Assignable(last.pre, st.elem)
        IN  /\ last.err = None
            /\ last.val > last.preN
            /\ heap[last.val].type = st.seq
            /\ providers = last.pre
            /\ Len(heap[last.val].elems) = Cardinality(idx)
            /\ \A k \in 1..Cardinality(idx) :
                  LET p == last.pre[Nth(idx, k)]
                      e == heap[last.val].elems[k]
                  IN  IF p.getter.kind = "const" THEN e = p.getter.obj
                      ELSE /\ e > last.preN
                           /\ heap[e].type = p.type
                           /\ \A j \in 1..Cardinality(idx) :
                                 j # k => heap[last.val].elems[j] # e

\* a list was resolved from a ServiceB registered before a ServiceA and a
\* supplier: three elements in that order
C15_Witness ==
    /\ last.op = "resolve" /\ last.err = None
    /\ last.type = "List[ServiceA]"
    /\ Assignable(last.pre, last.type) = {}
    /\ Len(heap[last.val].elems) = 3
    /\ heap[heap[last.val].elems[1]].type = "ServiceB"
    /\ heap[heap[last.val].elems[2]].type = "ServiceA"
    /\ heap[last.val].elems[3] > last.preN

\* a tuple type of fixed length: Tuple[E], Tuple[E1, E2], not Tuple[E, ...]
IsFixedTuple(t) ==
    /\ get_origin(t) = "tuple"
    /\ get_args(t) # <<>>
    /\ ~(Len(get_args(t)) = 2 /\ get_args(t)[2] = "...")

\* the required constructor parameters of t that have a fixed tuple type
FixedTupleParams(t) ==
    { k \in DOMAIN _get_dependencies_for_type(t) :
        /\ _get_dependencies_for_type(t)[k].required
        /\ IsFixedTuple(_get_dependencies_for_type(t)[k].type) }

\* C16 (as claimed): a tuple type of fixed length is never treated as a
\* collective request: resolving it fails, and resolving a type that has a
\* required constructor parameter of such a type fails with
\* UnresolvableDependency, even when providers for the element type exist.
C16_FixedTupleFails ==
    last.op = "resolve" =>
        /\ IsFixedTuple(last.type) => last.err # None
        /\ FixedTupleParams(last.type) # {} =>
              last.err = "UnresolvableDependencyException"

\* C16 (amended): when no registered provider satisfies the tuple type
\* itself, resolving it raises IllegalAutoWireType and registers nothing,
\* and resolving a type with a required constructor parameter of that type
\* fails with UnresolvableDependency caused by IllegalAutoWireType, whatever
\* providers exist for the element type; when exactly one registered
\* provider satisfies the tuple type (a registered tuple), its object is
\* returned, resp. injected.
C16_FixedTupleUnlessProvided ==
    last.op = "resolve" =>
        /\ IsFixedTuple(last.type) =>
              /\ Assignable(last.pre, last.type) = {} =>
                    /\ last.err = "IllegalAutoWireType"
                    /\ providers = last.pre
              /\ Cardinality(Assignable(last.pre, last.type)) = 1 =>
                    /\ last.err = None
                    /\ \A i \in Assignable(last.pre, last.type) :
                          last.val = last.pre[i].getter.obj
        /\ \A k \in FixedTupleParams(last.type) :
              LET d == _get_dependencies_for_type(last.type)[k]
              IN  /\ Assignable(last.pre, d.type) = {} =>
                        /\ last.err = "UnresolvableDependencyException"
                        /\ last.cause = "IllegalAutoWireType"
                        /\ providers = last.pre
                  /\ Cardinality(Assignable(last.pre, d.type)) = 1 =>
                        /\ last.err = None
                        /\ \A i \in Assignable(last.pre, d.type) :
                              heap[last.val].kw[d.name]
                                  = last.pre[i].getter.obj

\* resolving TupleService failed although two providers for the element
\* type of its tuple parameter were registered
C16_Witness ==
    /\ last.op = "resolve" /\ last.type = "TupleService"
    /\ Cardinality(Assignable(last.pre, "ServiceA")) >= 2
    /\ Assignable(last.pre, "Tuple[ServiceA]") = {}
    /\ last.err = "UnresolvableDependencyException"
    /\ last.cause = "IllegalAutoWireType"

(***************************************************************************)
(* Properties of the failures of autowire                                  *)
(***************************************************************************)
\* the latest call was autowire(T) and it called the constructor of T
ConstructorCalled ==
    /\ last.op = "autowire"
    /\ ModuleOf(last.type) \notin IllegalModules
    /\ last.at = 0

\* C17 (as claimed): any exception raised by the constructor of T during
\* autowire(T) is re-raised as InstantiationError with the original
\* exception as its cause; no other exception type escapes from the
\* constructor call.
C17_ConstructorErrorWrapped ==
    (ConstructorCalled /\ InitRaises(last.type)) =>
        /\ last.err = "InstantiationError"
        /\ last.cause = InitException(last.type)

\* C17 (amended): an exception raised by the constructor that derives from
\* Exception is re-raised as InstantiationError with the original as its
\* cause; SystemExit, KeyboardInterrupt and GeneratorExit, which derive from
\* BaseException only, escape as they are, through the autowire calls of
\* the types that need T as well.
C17_ExceptionWrappedBaseEscapes ==
    /\ (ConstructorCalled /\ InitRaises(last.type)) =>
          IF InitException(last.type)
                \in {"SystemExit", "KeyboardInterrupt", "GeneratorExit"}
          THEN /\ last.err = InitException(last.type)
               /\ last.cause = None
          ELSE /\ last.err = "InstantiationError"
               /\ last.cause = InitException(last.type)
    /\ (last.op = "autowire" /\ last.type = "ExitUser") =>
          last.err = "SystemExit"
    /\ (last.op = "autowire" /\ last.type = "TestUser") =>
          /\ last.err = "UnresolvableDependencyException"
          /\ last.cause = "InstantiationError"

\* autowire(TestService) raised InstantiationError caused by the exception
\* of the constructor
C17_Witness ==
    /\ ConstructorCalled /\ last.type = "TestService"
    /\ last.err = "InstantiationError" /\ last.cause = "Exception"

\* the foundational modules the claim lists
DeniedModules == {"builtins", "typing", "dataclasses", "abc"}

\* C18: autowire(T) for a type T of a deny-listed foundational module
\* raises IllegalAutoWireType before any parameter is resolved: no
\* parameter failed, no object was built and the provider list is
\* unchanged.  When a required constructor parameter of another type has
\* such a type, no provider and no sequence type, and the parameters before
\* it are served by existing providers, the outer autowire raises
\* UnresolvableDependency whose cause is the IllegalAutoWireType.
C18_IllegalTypeRejected ==
    last.op = "autowire" =>
        /\ ModuleOf(last.type) \in DeniedModules =>
              /\ last.err = "IllegalAutoWireType"
              /\ last.cause = None
              /\ last.at = 0
              /\ providers = last.pre
              /\ Len(heap) = last.preN
        /\ ModuleOf(last.type) \notin DeniedModules =>
              \A k \in DOMAIN LastDeps :
                  ( /\ LastDeps[k].required
                    /\ LastDeps[k].name \notin DOMAIN last.kw
                    /\ ModuleOf(LastDeps[k].type) \in DeniedModules
                    /\ get_sequence_type(LastDeps[k].type).elem = None
                    /\ Assignable(last.pre, LastDeps[k].type) = {}
                    /\ \A j \in 1..(k - 1) :
                          Match(last.pre, LastDeps[j]) # {} )
                      => /\ last.err = "UnresolvableDependencyException"
                         /\ last.cause = "IllegalAutoWireType"
                         /\ last.at = k

\* autowire(ServiceX) failed at its str parameter, which no provider serves
C18_Witness ==
    /\ last.op = "autowire" /\ last.type = "ServiceX"
    /\ Assignable(last.pre, "str") = {}
    /\ last.err = "UnresolvableDependencyException"
    /\ last.cause = "IllegalAutoWireType"
    /\ providers = last.pre


(***************************************************************************)
(* The context read by several threads.  A thread reads a field with       *)
(* getattr(ctx, f); the call runs __getattribute__, which may call         *)
(* Context.autowire, Container.autowire and Container.resolve, and these   *)
(* may read further fields through the providers of the context's          *)
(* container.  Every action is one step of one thread: one access to the   *)
(* state the threads share, with the local computation that follows it.    *)
(***************************************************************************)
Top(t) == th[t].stack[Len(th[t].stack)]

\* thread t is at pc in a call of the given kind and no result is pending
Running(t, kind, pc) ==
    /\ th[t].stack # <<>>
    /\ th[t].ret.kind = "none"
    /\ Top(t).kind = kind
    /\ Top(t).pc = pc

\* a call made from pc has handed its result to thread t
Resuming(t, kind, pc) ==
    /\ th[t].stack # <<>>
    /\ th[t].ret.kind # "none"
    /\ Top(t).kind = kind
    /\ Top(t).pc = pc

\* the top frame becomes fr
SetTop(t, fr) ==
    th' = [th EXCEPT ![t].stack[Len(th[t].stack)] = fr, ![t].ret = NoRet]

\* the top frame becomes fr and calls callee
Push(t, fr, callee) ==
    th' = [th EXCEPT ![t].stack = Append(SubSeq(@, 1, Len(@) - 1) \o <<fr>>,
                                         callee),
                     ![t].ret = NoRet]

\* Container.autowire or Container.resolve ends with r
Return(t, r) ==
    th' = [th EXCEPT ![t].stack = SubSeq(@, 1, Len(@) - 1), ![t].ret = r]

\* who called __getattribute__ in thread t: the client, the loop of new_init
\* over the eager fields ("eager") or over the provided fields ("check"), or
\* a provider of the context's container
CallerOf(t) ==
    IF Len(th[t].stack) = 1 THEN "client"
    ELSE LET below == th[t].stack[Len(th[t].stack) - 1]
         IN  IF below.kind # "init" THEN "provider"
             ELSE IF below.pc = "wait_provided" THEN "check"
             ELSE "eager"

\* __getattribute__ of field f ends with r, obtained from __dict__ at the
\* first check ("dict") or at the second ("recheck"), from the class
\* ("class"), from the thread's storage ("local") or by auto-wiring
\* ("built"); made are the objects built for fields so far
Complete(t, f, r, made, how) ==
    /\ th' = [th EXCEPT ![t].stack = SubSeq(@, 1, Len(@) - 1),
                        ![t].ret = IF Len(th[t].stack) = 1 THEN NoRet
                                   ELSE r]
    /\ log' = [ reads |-> [log.reads EXCEPT ![t] =
                              Append(@, [ field |-> f, val |-> r.val,
                                          err |-> r.err, how |-> how,
                                          by |-> CallerOf(t) ])],
                made |-> made, trace |-> log.trace ]

\* a thread starts getattr(ctx, f) on the context its constructor returned
Read(t, f) ==
    /\ ctx.phase = "ready"
    /\ th[t].stack = <<>>
    /\ th[t].reads < MaxReads
    /\ th' = [th EXCEPT ![t].stack = <<GetattrFrame(f)>>,
                        ![t].reads = @ + 1]
    /\ UNCHANGED <<ctx, log, heap, cvars>>

\* faulty test: a cached property is computed on every read as well
Uncached_properties(f) ==
    Decl(f).transient \/ Decl(f).kind \in {"property", "cached_property"}

\* a value that is computed on every read: a transient field or a property
Uncached(f) == Decl(f).transient \/ Decl(f).kind = "property"

\* a value that is kept per thread: a thread-local field, or a
\* thread_local_cached_property, whose __local_dict__ is taken here as one
\* storage per property
PerThread(f) ==
    Decl(f).thread_local \/ Decl(f).kind = "thread_local_cached_property"

\* attr_value = super().__getattribute__(item): the value in __dict__ is
\* returned, and so is a class attribute that is no _Autowired; an
\* _Autowired class attribute sends the call to the branch of the field
GetattrRead(t) ==
    /\ Running(t, "getattr", "read")
    /\ LET f == Top(t).field
       IN  IF ctx.dict[f] # 0
           THEN Complete(t, f, RetVal(ctx.dict[f]), log.made, "dict")
           ELSE IF Decl(f).kind = "provided"
           THEN Complete(t, f, RetVal(ClassAttr), log.made, "class")
           ELSE IF Decl(f).kind = "autowired" /\ _get_field_type(f) = None
           THEN Complete(t, f, RetExc("MissingTypeAnnotation", None),
                         log.made, "type")
           ELSE /\ SetTop(t, [Top(t) EXCEPT !.pc =
                                 IF Uncached(f) \/ Decl(f).kind = "cached_property"
                                 THEN "container"
                                 ELSE IF PerThread(f) THEN "setdefault"
                                 ELSE "acquire"])
                /\ UNCHANGED log
    /\ UNCHANGED <<ctx, heap, cvars>>

\* self.__dict__.setdefault("_<item>_thread_local", threading.local()) and
\* hasattr(thread_local_storage, "value")
TlSetdefault(t) ==
    /\ Running(t, "getattr", "setdefault")
    /\ LET f == Top(t).field
       IN  /\ ctx' = [ctx EXCEPT !.storage[f] = TRUE]
           /\ IF ctx.tls[f][t] # 0
              THEN Complete(t, f, RetVal(ctx.tls[f][t]), log.made, "local")
              ELSE /\ SetTop(t, [Top(t) EXCEPT !.pc = "container"])
                   /\ UNCHANGED log
    /\ UNCHANGED <<heap, cvars>>

\* with lock: threading.Lock is not reentrant
LockAcquire(t) ==
    /\ Running(t, "getattr", "acquire")
    /\ ctx.locks[Top(t).field] = 0
    /\ ctx' = [ctx EXCEPT !.locks[Top(t).field] = t]
    /\ SetTop(t, [Top(t) EXCEPT !.pc = "recheck"])
    /\ UNCHANGED <<log, heap, cvars>>

\* faulty second check: the field is auto-wired whatever __dict__ holds
LockRecheck_unchecked(t) ==
    /\ Running(t, "getattr", "recheck")
    /\ SetTop(t, [Top(t) EXCEPT !.pc = "container"])
    /\ UNCHANGED <<ctx, log, heap, cvars>>

\* the second check under the lock
LockRecheck(t) ==
    /\ Running(t, "getattr", "recheck")
    /\ LET f == Top(t).field
       IN  IF ctx.dict[f] # 0
           THEN SetTop(t, [Top(t) EXCEPT !.val = ctx.dict[f],
                                         !.how = "recheck",
                                         !.pc = "release"])
           ELSE SetTop(t, [Top(t) EXCEPT !.pc = "container"])
    /\ UNCHANGED <<ctx, log, heap, cvars>>

\* the keyword arguments of the field that get_all_kw_args has still to
\* work on when the call has reached k of them
KwArgs(f) == kw_args(ctx.cls, f)

\* self.autowire or get_all_kw_args raises: the call goes on where the
\* result of self.autowire is awaited
RaiseInRead(t, e) ==
    th' = [th EXCEPT ![t].stack[Len(th[t].stack)].pc = "wait_autowire",
                     ![t].ret = RetExc(e, None)]

\* getattr(value, key) along a path, on objects whose attributes are the
\* arguments of their constructor: the object found, or 0 when an object
\* on the way has no attribute of that name (AttributeError)
RECURSIVE select(_, _)
select(v, path) ==
    IF path = << >> THEN v
    ELSE IF Head(path) \notin DOMAIN heap[v].kw THEN 0
    ELSE select(heap[v].kw[Head(path)], Tail(path))

\* attr_value.get_all_kw_args(self), one keyword argument per step: a
\* value that is no selector is passed on as it is (0 stands for it), and
\* value.select(ctx) of a selector starts with getattr(ctx, name) of its
\* field
SelectKwArg(t) ==
    /\ Running(t, "getattr", "container")
    /\ Top(t).k < Len(KwArgs(Top(t).field))
    /\ LET fr == Top(t)
           e == KwArgs(fr.field)[fr.k + 1]
           v == Expression(ctx.cls, e)
       IN  IF v.selector
           THEN Push(t, [fr EXCEPT !.pc = "wait_select"],
                     GetattrFrame(v.field))
           ELSE SetTop(t, [fr EXCEPT !.kw = (e.param :> 0) @@ @,
                                     !.k = @ + 1])
    /\ UNCHANGED <<ctx, log, heap, cvars>>

\* getattr(ctx, name) of the field of a selector has returned or raised;
\* the attributes of the path are read off the value
SelectResume(t) ==
    /\ Resuming(t, "getattr", "wait_select")
    /\ LET fr == Top(t)
           e == KwArgs(fr.field)[fr.k + 1]
           r == th[t].ret
       IN  IF r.kind = "exc"
           THEN th' = [th EXCEPT ![t].stack[Len(th[t].stack)].pc =
                                     "wait_autowire"]
           ELSE IF select(r.val, e.path) = 0
           THEN RaiseInRead(t, "AttributeError")
           ELSE SetTop(t, [fr EXCEPT
                              !.kw = (e.param :> select(r.val, e.path)) @@ @,
                              !.k = @ + 1, !.pc = "container"])
    /\ UNCHANGED <<ctx, log, heap, cvars>>

\* self.autowire(field_type, ...): self.container, then
\* Container.autowire.  A container that __dict__ holds is used; otherwise
\* it is computed, at once under the lock of cached_property; when a
\* property has no type the getter raises and __dict__ gets no container
GetContainer(t) ==
    /\ Running(t, "getattr", "container")
    /\ Top(t).k = Len(KwArgs(Top(t).field))
    /\ LET f == Top(t).field
           new == Len(ctx.conts) + 1
       IN  IF ctx.container # 0
           THEN /\ Push(t, [Top(t) EXCEPT !.pc = "wait_autowire"],
                        AutowireFrame(ctx.container, AutowiredType(f),
                                      Top(t).kw))
                /\ UNCHANGED ctx
           ELSE IF ~ctx.locked_cp
           THEN /\ SetTop(t, [Top(t) EXCEPT !.pc = "build"])
                /\ UNCHANGED ctx
           ELSE IF Untyped
           THEN RaiseInRead(t, "MissingTypeAnnotation") /\ UNCHANGED ctx
           ELSE /\ ctx' = [ctx EXCEPT !.conts = Append(@, Projection),
                                      !.container = new]
                /\ Push(t, [Top(t) EXCEPT !.pc = "wait_autowire"],
                        AutowireFrame(new, AutowiredType(f), Top(t).kw))
    /\ UNCHANGED <<log, heap, cvars>>

\* cached_property without a lock: the container is computed and stored
\* whatever __dict__ holds by now
BuildContainer(t) ==
    /\ Running(t, "getattr", "build")
    /\ LET new == Len(ctx.conts) + 1
       IN  IF Untyped
           THEN RaiseInRead(t, "MissingTypeAnnotation") /\ UNCHANGED ctx
           ELSE /\ ctx' = [ctx EXCEPT !.conts = Append(@, Projection),
                                      !.container = new]
                /\ Push(t, [Top(t) EXCEPT !.pc = "wait_autowire"],
                        AutowireFrame(new, AutowiredType(Top(t).field),
                                      Top(t).kw))
    /\ UNCHANGED <<log, heap, cvars>>

\* self.autowire(...) has returned or raised
GetattrResume(t) ==
    /\ Resuming(t, "getattr", "wait_autowire")
    /\ LET f == Top(t).field
           r == th[t].ret
           made == IF r.kind = "val"
                   THEN log.made \cup
                            {[ field |-> f, thread |-> t, obj |-> r.val,
                               during |-> ctx.phase ]}
                   ELSE log.made
       IN  IF Uncached(f)
           THEN Complete(t, f, r, made, "built") /\ UNCHANGED ctx
           ELSE IF Decl(f).kind = "cached_property"
           THEN /\ Complete(t, f, r, made, "built")
                /\ ctx' = IF r.kind = "val"
                          THEN [ctx EXCEPT !.dict[f] = r.val]
                          ELSE ctx
           ELSE IF PerThread(f)
           THEN /\ Complete(t, f, r, made, "built")
                /\ ctx' = IF r.kind = "val"
                          THEN [ctx EXCEPT !.tls[f][t] = r.val]
                          ELSE ctx
           ELSE /\ SetTop(t, IF r.kind = "val"
                             THEN [Top(t) EXCEPT !.val = r.val,
                                                 !.how = "built",
                                                 !.pc = "store"]
                             ELSE [Top(t) EXCEPT !.err = r.err,
                                                 !.cause = r.cause,
                                                 !.how = "built",
                                                 !.pc = "release"])
                /\ log' = [log EXCEPT !.made = made]
                /\ UNCHANGED ctx
    /\ UNCHANGED <<heap, cvars>>

\* self.__dict__[item] = value
FieldStore(t) ==
    /\ Running(t, "getattr", "store")
    /\ ctx' = [ctx EXCEPT !.dict[Top(t).field] = Top(t).val]
    /\ SetTop(t, [Top(t) EXCEPT !.pc = "release"])
    /\ UNCHANGED <<log, heap, cvars>>

\* faulty end of the with block: an exception leaves the lock held
LockRelease_on_success(t) ==
    /\ Running(t, "getattr", "release")
    /\ ctx' = IF Top(t).err # None THEN ctx
              ELSE [ctx EXCEPT !.locks[Top(t).field] = 0]
    /\ Complete(t, Top(t).field,
                IF Top(t).err # None THEN RetExc(Top(t).err, Top(t).cause)
                ELSE RetVal(Top(t).val),
                log.made, Top(t).how)
    /\ UNCHANGED <<heap, cvars>>

\* the end of the with block: the lock is released, the value returned or
\* the exception passed on
LockRelease(t) ==
    /\ Running(t, "getattr", "release")
    /\ ctx' = [ctx EXCEPT !.locks[Top(t).field] = 0]
    /\ Complete(t, Top(t).field,
                IF Top(t).err # None THEN RetExc(Top(t).err, Top(t).cause)
                ELSE RetVal(Top(t).val),
                log.made, Top(t).how)
    /\ UNCHANGED <<heap, cvars>>

\* Container.autowire(t): the module check and the dependencies of t
AutowireEnter(t) ==
    /\ Running(t, "autowire", "enter")
    /\ IF ModuleOf(Top(t).type)
              \in {"builtins", "typing", "dataclasses", "abc", "object"}
       THEN Return(t, RetExc("IllegalAutoWireType", None))
       ELSE SetTop(t, [Top(t) EXCEPT !.pc = "dep"])
    /\ UNCHANGED <<ctx, log, heap, cvars>>

\* one turn of the loop over the dependencies: self.get_provider(dep), then
\* existing.get_instance(...) or self.resolve(dep)
AutowireDep(t) ==
    /\ Running(t, "autowire", "dep")
    /\ Top(t).k <= Len(_get_dependencies_for_type(Top(t).type))
    /\ LET fr == Top(t)
           dep == _get_dependencies_for_type(fr.type)[fr.k]
       IN  IF dep.name \in DOMAIN fr.kw
           THEN SetTop(t, [fr EXCEPT !.k = @ + 1])
           ELSE \E existing \in {get_provider(ctx.conts[fr.cont], dep)} :
                  IF existing.kind = "ambiguous"
                  THEN Return(t, RetExc("AmbiguousDependencyException",
                                        None))
                  ELSE IF existing.kind = "none"
                  THEN Push(t, [fr EXCEPT !.pc = "wait_resolve"],
                            ResolveFrame(fr.cont, dep))
                  ELSE IF existing.provider.getter.kind = "prop"
                  THEN Push(t, [fr EXCEPT !.pc = "wait_instance"],
                            GetattrFrame(existing.provider.getter.property))
                  ELSE SetTop(t, [fr EXCEPT
                           !.kw = (dep.name :> existing.provider.getter.obj)
                                  @@ @,
                           !.k = @ + 1])
    /\ UNCHANGED <<ctx, log, heap, cvars>>

\* existing.get_instance(...) or self.resolve(dep) has returned or raised
AutowireResume(t) ==
    /\ \/ Resuming(t, "autowire", "wait_instance")
       \/ Resuming(t, "autowire", "wait_resolve")
    /\ LET fr == Top(t)
           dep == _get_dependencies_for_type(fr.type)[fr.k]
           r == th[t].ret
       IN  IF r.kind = "val"
           THEN SetTop(t, [fr EXCEPT !.kw = (dep.name :> r.val) @@ @,
                                     !.k = @ + 1, !.pc = "dep"])
           ELSE IF fr.pc = "wait_instance"
           THEN Return(t, r)
           ELSE IF ~IsAutowiredException(r.err)
           THEN Return(t, r)
           ELSE IF dep.required
           THEN Return(t, RetExc("UnresolvableDependencyException", r.err))
           ELSE SetTop(t, [fr EXCEPT !.k = @ + 1, !.pc = "dep"])
    /\ UNCHANGED <<ctx, log, heap, cvars>>

\* t(**resolved_kw_args)
AutowireConstruct(t) ==
    /\ Running(t, "autowire", "dep")
    /\ Top(t).k > Len(_get_dependencies_for_type(Top(t).type))
    /\ IF InitRaises(Top(t).type)
       THEN Return(t, IF IsException(InitException(Top(t).type))
                      THEN RetExc("InstantiationError",
                                  InitException(Top(t).type))
                      ELSE RetExc(InitException(Top(t).type), None))
            /\ UNCHANGED heap
       ELSE /\ heap' = Append(heap, Obj(Top(t).type, Top(t).kw, <<>>))
            /\ Return(t, RetVal(Len(heap) + 1))
    /\ UNCHANGED <<ctx, log, cvars>>

\* Container.resolve(dep): self.get_provider(dependency), then
\* existing.get_instance(...) or self.autowire(dependency.type).  The
\* classes of the context have no parameter of a list or tuple type.
ResolveLookup(t) ==
    /\ Running(t, "resolve", "lookup")
    /\ LET fr == Top(t)
       IN  \E existing \in {get_provider(ctx.conts[fr.cont], fr.dep)} :
             IF existing.kind = "ambiguous"
             THEN Return(t, RetExc("AmbiguousDependencyException", None))
             ELSE IF existing.kind = "none"
             THEN Push(t, [fr EXCEPT !.pc = "wait_autowire"],
                       AutowireFrame(fr.cont, fr.dep.type, EmptyKw))
             ELSE IF existing.provider.getter.kind = "prop"
             THEN Push(t, [fr EXCEPT !.pc = "wait_instance"],
                       GetattrFrame(existing.provider.getter.property))
             ELSE Return(t, RetVal(existing.provider.getter.obj))
    /\ UNCHANGED <<ctx, log, heap, cvars>>

\* existing.get_instance(...) or self.autowire(dependency.type) has
\* returned or raised
ResolveResume(t) ==
    /\ \/ Resuming(t, "resolve", "wait_instance")
       \/ Resuming(t, "resolve", "wait_autowire")
    /\ IF th[t].ret.kind = "val" /\ Top(t).pc = "wait_autowire"
       THEN SetTop(t, [Top(t) EXCEPT !.val = th[t].ret.val, !.pc = "add"])
       ELSE Return(t, th[t].ret)
    /\ UNCHANGED <<ctx, log, heap, cvars>>

\* self.add(Provider.from_supplier(lambda: result, dependency.type,
\* dependency.name)); return result
ResolveAdd(t) ==
    /\ Running(t, "resolve", "add")
    /\ LET fr == Top(t)
       IN  /\ ctx' = [ctx EXCEPT !.conts[fr.cont] =
                        Append(@, _SimpleProvider(fr.dep.name, fr.dep.type,
                                      Getter("const", fr.val, NewFn(@))))]
           /\ Return(t, RetVal(fr.val))
    /\ UNCHANGED <<log, heap, cvars>>

\* the client calls the constructor of the context class with the argument
\* arg (0: none)
Construct(t, arg) ==
    /\ ctx.phase = "new"
    /\ th[t].stack = <<>>
    /\ ctx' = [ctx EXCEPT !.phase = "init"]
    /\ th' = [th EXCEPT ![t].stack = <<InitFrame(arg)>>]
    /\ UNCHANGED <<log, heap, cvars>>

\* the constructor call ends: it returns, or raises err
InitEnd(t, err) ==
    /\ ctx' = [ctx EXCEPT !.phase = IF err = None THEN "ready" ELSE "failed"]
    /\ th' = [th EXCEPT ![t].stack = <<>>, ![t].ret = NoRet]
    /\ log' = [log EXCEPT !.trace =
                  Append(@, [ step |-> IF err = None THEN "return"
                                       ELSE "raise",
                              field |-> None, err |-> err ])]

\* new_init: the locks of the autowired fields of the class, the dataclass
\* check, and original_init where the class has one: the body assigns the
\* provided field when an argument was given
InitBody(t) ==
    /\ Running(t, "init", "locks")
    /\ IF original_init(ctx.cls)
       THEN /\ ctx' = IF Top(t).val # 0
                      THEN [ctx EXCEPT !.dict["service0"] = Top(t).val]
                      ELSE ctx
            /\ log' = [log EXCEPT !.trace =
                          Append(@, [ step |-> "body", field |-> None,
                                      err |-> None ])]
       ELSE UNCHANGED <<ctx, log>>
    /\ SetTop(t, [Top(t) EXCEPT !.pc = "eager", !.k = 1])
    /\ UNCHANGED <<heap, cvars>>

\* for field_name in eager_fields: getattr(self, field_name)
InitEager(t) ==
    /\ Running(t, "init", "eager")
    /\ IF Top(t).k <= Len(eager_fields(ctx.cls))
       THEN Push(t, [Top(t) EXCEPT !.pc = "wait_eager"],
                 GetattrFrame(eager_fields(ctx.cls)[Top(t).k]))
       ELSE SetTop(t, [Top(t) EXCEPT !.pc = "provided", !.k = 1])
    /\ UNCHANGED <<ctx, log, heap, cvars>>

\* getattr(self, field_name) of an eager field has returned or raised
InitEagerResume(t) ==
    /\ Resuming(t, "init", "wait_eager")
    /\ IF th[t].ret.kind = "exc"
       THEN InitEnd(t, th[t].ret.err)
       ELSE /\ SetTop(t, [Top(t) EXCEPT !.pc = "eager", !.k = @ + 1])
            /\ log' = [log EXCEPT !.trace =
                          Append(@, [ step |-> "eager",
                                      field |->
                                          eager_fields(ctx.cls)[Top(t).k],
                                      err |-> None ])]
            /\ UNCHANGED ctx
    /\ UNCHANGED <<heap, cvars>>

\* for field_name in provided_fields: value = getattr(self, field_name);
\* after the loop new_init returns
InitProvided(t) ==
    /\ Running(t, "init", "provided")
    /\ IF Top(t).k <= Len(provided_fields(ctx.cls))
       THEN /\ Push(t, [Top(t) EXCEPT !.pc = "wait_provided"],
                    GetattrFrame(provided_fields(ctx.cls)[Top(t).k]))
            /\ UNCHANGED <<ctx, log>>
       ELSE InitEnd(t, None)
    /\ UNCHANGED <<heap, cvars>>

\* if isinstance(value, _Provided): raise NotProvidedException
InitProvidedResume(t) ==
    /\ Resuming(t, "init", "wait_provided")
    /\ IF th[t].ret.kind = "exc"
       THEN InitEnd(t, th[t].ret.err)
       ELSE IF IsPlaceholder(th[t].ret.val)
       THEN InitEnd(t, "NotProvidedException")
       ELSE /\ SetTop(t, [Top(t) EXCEPT !.pc = "provided", !.k = @ + 1])
            /\ log' = [log EXCEPT !.trace =
                          Append(@, [ step |-> "check",
                                      field |->
                                          provided_fields(ctx.cls)[Top(t).k],
                                      err |-> None ])]
            /\ UNCHANGED ctx
    /\ UNCHANGED <<heap, cvars>>

\* a step of the constructor call of the context
InitStep(t) ==
    \/ InitBody(t)
    \/ InitEager(t)
    \/ InitEagerResume(t)
    \/ InitProvided(t)
    \/ InitProvidedResume(t)

\* a step of the calls that any field read may make
CallStep(t) ==
    \/ GetattrRead(t)
    \/ GetContainer(t)
    \/ BuildContainer(t)
    \/ GetattrResume(t)
    \/ AutowireEnter(t)
    \/ AutowireDep(t)
    \/ AutowireResume(t)
    \/ AutowireConstruct(t)
    \/ ResolveLookup(t)
    \/ ResolveResume(t)
    \/ ResolveAdd(t)

InitContext ==
    /\ providers = <<>>
    /\ heap = <<>>
    /\ last = [ op |-> "init", name |-> None, type |-> None, kw |-> EmptyKw,
                val |-> 0, err |-> None, cause |-> None, via |-> None,
                rep |-> NoRep, pre |-> <<>>, preN |-> 0, at |-> 0 ]
    /\ rt = NoRt
    /\ pure = TRUE
    /\ steps = 0
    /\ \E locked \in BOOLEAN : ctx = NewContext(locked)
    /\ th = IdleThreads
    /\ log = EmptyLog

(***************************************************************************)
(* SpecContext: threads that read the normal field of the context.         *)
(***************************************************************************)
NormalFields ==
    { f \in FieldsOf : /\ Decl(f).kind = "autowired"
                       /\ ~Decl(f).thread_local /\ ~Decl(f).transient }

NextContext ==
    \E t \in Threads :
        \/ \E f \in NormalFields : Read(t, f)
        \/ CallStep(t)
        \/ TlSetdefault(t)
        \/ LockAcquire(t)
        \/ LockRecheck(t)
        \/ FieldStore(t)
        \/ LockRelease(t)

SpecContext == InitContext /\ [][NextContext]_vars

(***************************************************************************)
(* SpecThreadLocal: threads that read the thread-local field only.         *)
(***************************************************************************)
ThreadLocalFields ==
    { f \in FieldsOf : Decl(f).thread_local /\ ~Decl(f).transient }

NextThreadLocal ==
    \E t \in Threads :
        \/ \E f \in ThreadLocalFields : Read(t, f)
        \/ CallStep(t)
        \/ TlSetdefault(t)

SpecThreadLocal == InitContext /\ [][NextThreadLocal]_vars

(***************************************************************************)
(* SpecTransient: threads that read the fields of a TransientContext.      *)
(***************************************************************************)
\* the state before the client touches a context of class cls: the heap
\* holds the objects in objs
InitOf(cls, phase, objs) ==
    /\ providers = <<>>
    /\ heap = objs
    /\ last = [ op |-> "init", name |-> None, type |-> None, kw |-> EmptyKw,
                val |-> 0, err |-> None, cause |-> None, via |-> None,
                rep |-> NoRep, pre |-> <<>>, preN |-> 0, at |-> 0 ]
    /\ rt = NoRt
    /\ pure = TRUE
    /\ steps = 0
    /\ \E locked \in BOOLEAN : ctx = Context(cls, locked, phase)
    /\ th = IdleThreads
    /\ log = EmptyLog

TransientFields == { f \in FieldsOf : Decl(f).transient }

\* the number of reads the first n threads have started
RECURSIVE ReadsStarted(_)
ReadsStarted(n) == IF n = 0 THEN 0 ELSE th[n].reads + ReadsStarted(n - 1)

\* a thread starts getattr(ctx, f) while the client has reads left
ClientRead(t, f) ==
    /\ ReadsStarted(NumThreads) < MaxTotalReads
    /\ Read(t, f)

InitTransient == InitOf("TransientContext", "ready", <<>>)

NextTransient ==
    \E t \in 1..NumReaders :
        \/ \E f \in FieldsOf : ClientRead(t, f)
        \/ CallStep(t)
        \/ LockAcquire(t)
        \/ LockRecheck(t)
        \/ FieldStore(t)
        \/ LockRelease(t)

SpecTransient == InitTransient /\ [][NextTransient]_vars

(***************************************************************************)
(* SpecBoth: threads that read the field of a BothContext, which is        *)
(* declared transient and thread-local.                                    *)
(***************************************************************************)
InitBoth == InitOf("BothContext", "ready", <<>>)

NextBoth ==
    \E t \in 1..NumReaders :
        \/ \E f \in FieldsOf : ClientRead(t, f)
        \/ CallStep(t)

SpecBoth == InitBoth /\ [][NextBoth]_vars

(***************************************************************************)
(* SpecHidden: threads that read the two fields of a HiddenContext, whose  *)
(* classes both need a HiddenDep that no field of the context provides.    *)
(***************************************************************************)
InitHidden == InitOf("HiddenContext", "ready", <<>>)

NextHidden ==
    \E t \in 1..NumReaders :
        \/ \E f \in FieldsOf : ClientRead(t, f)
        \/ CallStep(t)
        \/ LockAcquire(t)
        \/ LockRecheck(t)
        \/ FieldStore(t)
        \/ LockRelease(t)

SpecHidden == InitHidden /\ [][NextHidden]_vars

(***************************************************************************)
(* SpecConstruct: the client constructs a BaseContext or a DerivedContext, *)
(* with a Service0 or without, and threads read the fields of the context  *)
(* the constructor returned.  Every parameter of the classes of these      *)
(* contexts is served by a field or has a default of a type that cannot be *)
(* auto-wired, so that Container.resolve adds no provider.                 *)
(***************************************************************************)
InitConstruct ==
    \E cls \in {"BaseContext", "DerivedContext"} :
        InitOf(cls, "new", << Obj("_Provided", EmptyKw, <<>>),
                              Obj("Service0", EmptyKw, <<>>) >>)

\* what the client may pass to the constructor: nothing, or a Service0
ConstructorArgs == {0} \cup { i \in DOMAIN heap : heap[i].type = "Service0" }

NextConstruct ==
    \E t \in 1..NumReaders :
        \/ \E arg \in ConstructorArgs : Construct(t, arg)
        \/ InitStep(t)
        \/ \E f \in FieldsOf : ClientRead(t, f)
        \/ GetattrRead(t)
        \/ GetContainer(t)
        \/ BuildContainer(t)
        \/ GetattrResume(t)
        \/ AutowireEnter(t)
        \/ AutowireDep(t)
        \/ AutowireResume(t)
        \/ AutowireConstruct(t)
        \/ ResolveLookup(t)
        \/ ResolveResume(t)
        \/ LockAcquire(t)
        \/ LockRecheck(t)
        \/ FieldStore(t)
        \/ LockRelease(t)

SpecConstruct == InitConstruct /\ [][NextConstruct]_vars

(***************************************************************************)
(* SpecBlocking: threads that read the normal fields of a TestContext or   *)
(* of a CycleContext, each thread taking its steps as long as it can: a    *)
(* running thread is scheduled again and again, and a constructor call     *)
(* returns.                                                                *)
(***************************************************************************)
InitBlocking ==
    \E cls \in {"TestContext", "CycleContext"} : InitOf(cls, "ready", <<>>)

\* a step of thread t inside a read it has started
ThreadStep(t) ==
    \/ CallStep(t)
    \/ TlSetdefault(t)
    \/ LockAcquire(t)
    \/ LockRecheck(t)
    \/ FieldStore(t)
    \/ LockRelease(t)

SpecBlocking ==
    /\ InitBlocking
    /\ [][NextContext]_vars
    /\ \A t \in Threads : WF_vars(ThreadStep(t))

(***************************************************************************)
(* A context used by one client: it reads fields, assigns provided fields, *)
(* and works on ctx.container (resolve, autowire, add, get_providers) and  *)
(* calls ctx.derive_from.  The calls of the client are counted in steps    *)
(* and logged, in their order, in log.reads of the client's thread.        *)
(***************************************************************************)
\* the client runs in the first thread
Client == CHOOSE t \in Threads : \A u \in Threads : t <= u

\* the heap after the client has built an object of class t with the
\* arguments its constructor needs; the new object is the last one
Built(h, t) ==
    IF t = "Config"
    THEN LET n == Len(h)
         IN  h \o << Obj("str", EmptyKw, <<>>),
                     Obj("InnerConfig", ("foo" :> n + 1), <<>>),
                     Obj("str", EmptyKw, <<>>),
                     Obj("Config", ("inner" :> n + 2) @@ ("name" :> n + 3),
                         <<>>) >>
    ELSE Append(h, Obj(t, EmptyKw, <<>>))

\* a call of the client on the context: op is "container" (ctx.container),
\* "resolve" or "autowire" (ctx.container.resolve(type), ctx.autowire(type)),
\* "add" (ctx.container.add(val)) or "derive_from" (ctx.derive_from(other),
\* other being the container of the client)
CallFrame(op, type, val) ==
    [Frame("call", "container") EXCEPT !.how = op, !.type = type,
                                       !.val = val]

\* the entry of the client's log for a call that ends with r
CallRecord(fr, r) ==
    [ field |-> None, val |-> r.val, err |-> r.err, how |-> fr.how,
      by |-> "client", type |-> fr.type, arg |-> fr.val ]

\* the call of the client ends with r
CallEnd(t, fr, r) ==
    /\ th' = [th EXCEPT ![t].stack = <<>>, ![t].ret = NoRet]
    /\ log' = [log EXCEPT !.reads[t] = Append(@, CallRecord(fr, r))]

\* the state after the constructor of a context of class cls returned:
\* the constructor has assigned the provided field of the class
InitClientOf(cls) ==
    LET provided_field == provided_fields(cls)
        objs == IF provided_field = << >> THEN << >>
                ELSE Built(<< >>, DeclOf(cls, provided_field[1]).type)
    IN  /\ providers = <<>>
        /\ heap = objs
        /\ last = [ op |-> "init", name |-> None, type |-> None,
                    kw |-> EmptyKw, val |-> 0, err |-> None, cause |-> None,
                    via |-> None, rep |-> NoRep, pre |-> <<>>, preN |-> 0,
                    at |-> 0 ]
        /\ rt = NoRt
        /\ pure = TRUE
        /\ steps = 0
        /\ ctx = IF provided_field = << >> THEN Context(cls, TRUE, "ready")
                 ELSE [Context(cls, TRUE, "ready") EXCEPT
                          !.dict[provided_field[1]] = Len(objs)]
        /\ th = IdleThreads
        /\ log = EmptyLog

\* the client is between two calls and has calls left
Idle ==
    /\ th[Client].stack = <<>>
    /\ steps < MaxSteps
    /\ steps' = steps + 1

\* getattr(ctx, f)
Get(f) ==
    /\ Idle
    /\ th' = [th EXCEPT ![Client].stack = <<GetattrFrame(f)>>]
    /\ UNCHANGED <<providers, last, rt, pure, ctx, log, heap>>

\* ctx.f = X for a new object X of the type of the provided field f:
\* __setattr__ of object stores it in __dict__
SetField(f) ==
    /\ Idle
    /\ heap' = Built(heap, Decl(f).type)
    /\ ctx' = [ctx EXCEPT !.dict[f] = Len(heap')]
    /\ log' = [log EXCEPT !.reads[Client] =
                  Append(@, [ field |-> f, val |-> Len(heap'), err |-> None,
                              how |-> "set", by |-> "client" ])]
    /\ UNCHANGED <<providers, last, rt, pure, th>>

\* ctx.container, ctx.container.resolve(type) or ctx.autowire(type)
ContainerCall(op, type) ==
    /\ Idle
    /\ th' = [th EXCEPT ![Client].stack = <<CallFrame(op, type, 0)>>]
    /\ UNCHANGED <<providers, last, rt, pure, ctx, log, heap>>

\* ctx.container.add(X) for a new object X of class type
ContainerAdd(type) ==
    /\ Idle
    /\ heap' = Built(heap, type)
    /\ th' = [th EXCEPT ![Client].stack =
                 <<CallFrame("add", type, Len(heap'))>>]
    /\ UNCHANGED <<providers, last, rt, pure, ctx, log>>

\* container.add(X) on the container of the client, for a new object X of
\* class type
OtherAdd(type) ==
    /\ th[Client].stack = <<>>
    /\ AddInstance(type, None)

\* ctx.derive_from(container) with the container of the client:
\* container.get_providers() is a copy of its list, and the loop reads
\* self.container for every provider of it, so that a container without
\* providers leaves the context as it is
DeriveFrom ==
    /\ Idle
    /\ IF providers = <<>>
       THEN /\ log' = [log EXCEPT !.reads[Client] =
                          Append(@, CallRecord(CallFrame("derive_from", None,
                                                         0), RetVal(0)))]
            /\ UNCHANGED th
       ELSE /\ th' = [th EXCEPT ![Client].stack =
                         <<CallFrame("derive_from", None, 0)>>]
            /\ UNCHANGED log
    /\ UNCHANGED <<providers, last, rt, pure, ctx, heap>>

\* faulty loop: the providers are registered before the existing ones
derive_from_in_front(own, other) == other \o own

\* Context.derive_from: for provider in container.get_providers():
\* self.container.add(provider), on the provider list own
RECURSIVE derive_from(_, _)
derive_from(own, other) ==
    IF other = << >> THEN own
    ELSE derive_from(add([providers |-> own, heap |-> heap],
                         Head(other)).providers,
                     Tail(other))

\* self.container in a call of the client: the container that __dict__
\* holds, or the one the getter computes now; then the call itself
CallContainer(t) ==
    /\ Running(t, "call", "container")
    /\ LET fr == Top(t)
           new == IF ctx.container # 0 THEN ctx.container
                  ELSE Len(ctx.conts) + 1
           conts == IF ctx.container # 0 THEN ctx.conts
                    ELSE Append(ctx.conts, Projection)
       IN  IF ctx.container = 0 /\ Untyped
           THEN /\ CallEnd(t, fr, RetExc("MissingTypeAnnotation", None))
                /\ UNCHANGED ctx
           ELSE IF fr.how = "container"
           THEN /\ CallEnd(t, fr, RetVal(new))
                /\ ctx' = [ctx EXCEPT !.conts = conts, !.container = new]
           ELSE IF fr.how = "add"
           THEN /\ CallEnd(t, fr, RetVal(0))
                /\ ctx' = [ctx EXCEPT
                      !.conts = [conts EXCEPT ![new] =
                          add([providers |-> @, heap |-> heap],
                              _SimpleProvider(_camel_to_snake(fr.type),
                                  fr.type,
                                  Getter("const", fr.val, NewFn(@)))
                             ).providers],
                      !.container = new]
           ELSE IF fr.how = "derive_from"
           THEN /\ CallEnd(t, fr, RetVal(0))
                /\ ctx' = [ctx EXCEPT
                      !.conts = [conts EXCEPT ![new] =
                                    derive_from(@, providers)],
                      !.container = new]
           ELSE /\ Push(t, [fr EXCEPT !.pc = "wait"],
                        IF fr.how = "resolve"
                        THEN ResolveFrame(new, AsDependency(fr.type))
                        ELSE AutowireFrame(new, fr.type, EmptyKw))
                /\ ctx' = [ctx EXCEPT !.conts = conts, !.container = new]
                /\ UNCHANGED log
    /\ UNCHANGED <<heap, cvars>>

\* Container.resolve or Container.autowire has returned or raised
CallResume(t) ==
    /\ Resuming(t, "call", "wait")
    /\ CallEnd(t, Top(t), th[t].ret)
    /\ UNCHANGED <<ctx, heap, cvars>>

\* a step inside a call of the client
ClientStep(t) ==
    \/ CallContainer(t)
    \/ CallResume(t)
    \/ SelectKwArg(t)
    \/ SelectResume(t)
    \/ GetattrRead(t)
    \/ GetContainer(t)
    \/ GetattrResume(t)
    \/ AutowireEnter(t)
    \/ AutowireDep(t)
    \/ AutowireResume(t)
    \/ AutowireConstruct(t)
    \/ ResolveLookup(t)
    \/ ResolveResume(t)
    \/ ResolveAdd(t)
    \/ TlSetdefault(t)
    \/ LockAcquire(t)
    \/ LockRecheck(t)
    \/ FieldStore(t)
    \/ LockRelease(t)

(***************************************************************************)
(* SpecClient: one client and a context of one of the classes below.       *)
(***************************************************************************)
ClientClasses ==
    { "UnderscoreContext", "ProvidedContext", "PartlyAnnotatedContext",
      "UnannotatedPropertyContext", "RegisterContext", "SubtypeContext",
      "SelectorContext" }

\* the types the client resolves and auto-wires in a context of class cls
ResolvedTypes(cls) ==
    CASE cls = "ProvidedContext" -> {"Service0", "Service1"}
      [] cls = "SubtypeContext"  -> {"ServiceA", "ServiceB"}
      [] cls \in {"PartlyAnnotatedContext", "UnderscoreContext"}
                                 -> {"Service1"}
      [] OTHER                   -> {}

AutowiredTypes(cls) ==
    CASE cls = "ProvidedContext" -> {"Service1"}
      [] cls = "SubtypeContext"  -> {"OtherService"}
      [] cls = "RegisterContext" -> {"Service4"}
      [] OTHER                   -> {}

\* the classes whose instances the client registers in the container of
\* the context
AddedTypes(cls) == IF cls = "RegisterContext" THEN {"ServiceX"} ELSE {}

\* the classes whose instances the client registers in its own container
OtherTypes(cls) ==
    IF cls = "RegisterContext" THEN {"Service0", "ServiceX"} ELSE {}

InitClient == \E cls \in ClientClasses : InitClientOf(cls)

NextClient ==
    \/ \E f \in FieldsOf : Get(f)
    \/ \E f \in { g \in FieldsOf : Decl(g).kind = "provided" } : SetField(f)
    \/ ContainerCall("container", None)
    \/ \E type \in ResolvedTypes(ctx.cls) : ContainerCall("resolve", type)
    \/ \E type \in AutowiredTypes(ctx.cls) : ContainerCall("autowire", type)
    \/ \E type \in AddedTypes(ctx.cls) : ContainerAdd(type)
    \/ \E type \in OtherTypes(ctx.cls) : OtherAdd(type)
    \/ DeriveFrom
    \/ ClientStep(Client)

SpecClient == InitClient /\ [][NextClient]_vars

(***************************************************************************)
(* thread_local_cached_property read by several threads.  ctx is here an   *)
(* instance of a class with two such properties: the attribute             *)
(* __local_dict__ of the instance (local_dict, 0 while the instance has    *)
(* none), the threading.local objects created so far, each with one        *)
(* namespace per thread (locals), and the lock of each descriptor.         *)
(* Every action is one step of __get__ in one thread.                      *)
(***************************************************************************)
\* the properties of the class
LocalProperties == {"value", "service_b"}

\* threading.local(): no attribute in any thread
local == [t \in Threads |-> [a \in LocalProperties |-> 0]]

\* an instance fresh from its constructor and the descriptors of its class,
\* each with the Lock of its own that __init__ creates
TestClass ==
    [ cls |-> "TestClass", phase |-> "ready", local_dict |-> 0,
      locals |-> <<>>, lock |-> [a \in LocalProperties |-> 0] ]

GetFrame(a) == [Frame("__get__", "acquire") EXCEPT !.field = a]

InitLocal ==
    /\ providers = <<>>
    /\ heap = <<>>
    /\ last = [ op |-> "init", name |-> None, type |-> None, kw |-> EmptyKw,
                val |-> 0, err |-> None, cause |-> None, via |-> None,
                rep |-> NoRep, pre |-> <<>>, preN |-> 0, at |-> 0 ]
    /\ rt = NoRt
    /\ pure = TRUE
    /\ steps = 0
    /\ ctx = TestClass
    /\ th = IdleThreads
    /\ log = EmptyLog

\* a thread starts getattr(instance, a); instance is not None and
\* __set_name__ has set attr_name when the class was created
LocalRead(t, a) ==
    /\ th[t].stack = <<>>
    /\ th[t].reads < MaxReads
    /\ th' = [th EXCEPT ![t].stack = <<GetFrame(a)>>, ![t].reads = @ + 1]
    /\ UNCHANGED <<ctx, log, heap, cvars>>

\* with self.lock: the lock of the descriptor of the property
GetAcquire(t) ==
    /\ Running(t, "__get__", "acquire")
    /\ ctx.lock[Top(t).field] = 0
    /\ ctx' = [ctx EXCEPT !.lock[Top(t).field] = t]
    /\ SetTop(t, [Top(t) EXCEPT !.pc = "hasattr"])
    /\ UNCHANGED <<log, heap, cvars>>

\* if not hasattr(instance, "__local_dict__")
GetHasattr(t) ==
    /\ Running(t, "__get__", "hasattr")
    /\ SetTop(t, [Top(t) EXCEPT !.pc = IF ctx.local_dict = 0 THEN "assign"
                                       ELSE "load"])
    /\ UNCHANGED <<ctx, log, heap, cvars>>

\* instance.__local_dict__ = local()
GetAssign(t) ==
    /\ Running(t, "__get__", "assign")
    /\ ctx' = [ctx EXCEPT !.locals = Append(@, local),
                          !.local_dict = Len(ctx.locals) + 1]
    /\ SetTop(t, [Top(t) EXCEPT !.pc = "load"])
    /\ UNCHANGED <<log, heap, cvars>>

\* cache = instance.__local_dict__
GetLoad(t) ==
    /\ Running(t, "__get__", "load")
    /\ SetTop(t, [Top(t) EXCEPT !.cont = ctx.local_dict, !.pc = "cached"])
    /\ UNCHANGED <<ctx, log, heap, cvars>>

\* if not hasattr(cache, self.attr_name), in the namespace of the thread
GetCached(t) ==
    /\ Running(t, "__get__", "cached")
    /\ SetTop(t, [Top(t) EXCEPT !.pc =
                     IF ctx.locals[Top(t).cont][t][Top(t).field] = 0
                     THEN "call" ELSE "release"])
    /\ UNCHANGED <<ctx, log, heap, cvars>>

\* setattr(cache, self.attr_name, self.func(instance)): the function
\* returns a new object on every call
GetCall(t) ==
    /\ Running(t, "__get__", "call")
    /\ heap' = Append(heap, Obj("object", EmptyKw, <<>>))
    /\ ctx' = [ctx EXCEPT !.locals[Top(t).cont][t][Top(t).field] =
                             Len(heap) + 1]
    /\ log' = [log EXCEPT !.made = @ \cup
                  { [ field |-> Top(t).field, thread |-> t,
                      obj |-> Len(heap) + 1, during |-> ctx.phase ] }]
    /\ SetTop(t, [Top(t) EXCEPT !.pc = "release"])
    /\ UNCHANGED cvars

\* the end of the with block, and return getattr(cache, self.attr_name)
GetReturn(t) ==
    /\ Running(t, "__get__", "release")
    /\ ctx' = [ctx EXCEPT !.lock[Top(t).field] = 0]
    /\ Complete(t, Top(t).field,
                RetVal(ctx.locals[Top(t).cont][t][Top(t).field]),
                log.made, "local")
    /\ UNCHANGED <<heap, cvars>>

GetStep(t) ==
    \/ GetAcquire(t)
    \/ GetHasattr(t)
    \/ GetAssign(t)
    \/ GetLoad(t)
    \/ GetCached(t)
    \/ GetCall(t)
    \/ GetReturn(t)

(***************************************************************************)
(* SpecLocal: threads that read the two properties of one instance.        *)
(***************************************************************************)
NextLocal ==
    \E t \in Threads :
        \/ \E a \in LocalProperties : LocalRead(t, a)
        \/ GetStep(t)

SpecLocal == InitLocal /\ [][NextLocal]_vars


(***************************************************************************)
(* Properties of the fields of a context                                   *)
(***************************************************************************)
\* the reads of field f that thread t has completed, in order
ReadsOf(t, f) == SelectSeq(log.reads[t], LAMBDA r : r.field = f)

\* the objects that were auto-wired as the value of field f
MadeFor(f) == { m \in log.made : m.field = f }

\* C1: for every normal field, under any interleaving of the threads that
\* read it, the field's type is constructed exactly once: at most one object
\* is ever auto-wired for the field, every read by every thread returns that
\* object, and once a read has returned it the field holds it for good.
C1_ExactlyOnce ==
    \A f \in NormalFields :
        /\ Cardinality(MadeFor(f)) <= 1
        /\ ctx.dict[f] # 0 => \E m \in MadeFor(f) : m.obj = ctx.dict[f]
        /\ \A t \in Threads :
              \A i \in DOMAIN ReadsOf(t, f) :
                  /\ ReadsOf(t, f)[i].err = None
                  /\ \E m \in MadeFor(f) : m.obj = ReadsOf(t, f)[i].val
                  /\ ctx.dict[f] = ReadsOf(t, f)[i].val

\* three threads have read the field: one built the object, one found it at
\* the second check after waiting for the lock, one found it at once
C1_Witness ==
    \E f \in NormalFields :
        \E a, b, c \in Threads :
            /\ ReadsOf(a, f) # <<>> /\ ReadsOf(a, f)[1].how = "built"
            /\ ReadsOf(b, f) # <<>> /\ ReadsOf(b, f)[1].how = "recheck"
            /\ ReadsOf(c, f) # <<>> /\ ReadsOf(c, f)[1].how = "dict"
            /\ ReadsOf(a, f)[1].val = ReadsOf(b, f)[1].val
            /\ ReadsOf(a, f)[1].val = ReadsOf(c, f)[1].val

\* the objects that were auto-wired for thread-local field f in thread t
MadeIn(f, t) == { m \in MadeFor(f) : m.thread = t }

\* C10 (as claimed): for a thread-local field each thread has its own cached
\* value: the first read by a thread constructs an instance for that thread,
\* every later read by the thread returns that object, different threads
\* get distinct objects, and at most one object is constructed per field
\* and thread.
C10_ThreadLocalCaching ==
    \A f \in ThreadLocalFields : \A t \in Threads :
        /\ Cardinality(MadeIn(f, t)) <= 1
        /\ \A i \in DOMAIN ReadsOf(t, f) :
              /\ ReadsOf(t, f)[i].err = None
              /\ ReadsOf(t, f)[i].val = ReadsOf(t, f)[1].val
              /\ \E m \in MadeIn(f, t) : m.obj = ReadsOf(t, f)[i].val
        /\ \A u \in Threads \ {t} :
              \A m \in MadeIn(f, t) : \A n \in MadeIn(f, u) : m.obj # n.obj

(***************************************************************************)
(* Properties of transient fields                                          *)
(***************************************************************************)
\* the objects built so far that received the value of field f as a
\* constructor argument
Dependents(f) ==
    { i \in DOMAIN heap :
        \E n \in DOMAIN heap[i].kw :
            \E m \in MadeFor(f) : heap[i].kw[n] = m.obj }

\* C11: a transient field is never cached: every read constructs a new
\* instance, so that no read fails and any two reads, by any threads,
\* return distinct objects; the objects that were auto-wired from the
\* context with the value of the field each got an instance of their own;
\* and every read of a non-transient sibling field returns one and the same
\* object.
C11_TransientNeverCached ==
    /\ \A f \in TransientFields :
          /\ \A t, u \in Threads :
                \A i \in DOMAIN ReadsOf(t, f) : \A j \in DOMAIN ReadsOf(u, f) :
                    /\ ReadsOf(t, f)[i].err = None
                    /\ \E m \in MadeFor(f) : m.obj = ReadsOf(t, f)[i].val
                    /\ (t # u \/ i # j) =>
                          ReadsOf(t, f)[i].val # ReadsOf(u, f)[j].val
          /\ \A a, b \in Dependents(f) :
                a # b => \A n \in DOMAIN heap[a].kw \cap DOMAIN heap[b].kw :
                            heap[a].kw[n] # heap[b].kw[n]
    /\ \A f \in NormalFields :
          \A t, u \in Threads :
              \A i \in DOMAIN ReadsOf(t, f) : \A j \in DOMAIN ReadsOf(u, f) :
                  /\ ReadsOf(t, f)[i].err = None
                  /\ ReadsOf(t, f)[i].val = ReadsOf(u, f)[j].val

(***************************************************************************)
(* Properties of the construction of a context                             *)
(***************************************************************************)
\* the fields of the context, declared on its class or inherited, that are
\* marked eager, and those that are marked provided
EagerFields == { f \in FieldsOf : Decl(f).kind = "autowired" /\ Decl(f).eager }

ProvidedFields == { f \in FieldsOf : Decl(f).kind = "provided" }

\* the place of a step in the order body, eager fields, provided check, end
StepRank(step) ==
    CASE step = "body"  -> 1
      [] step = "eager" -> 2
      [] step = "check" -> 3
      [] OTHER          -> 4

\* C12: the construction of a context runs the constructor body, then
\* resolves every eager field, then checks the provided fields.  When the
\* constructor has returned, every eager field is resolved: its type was
\* constructed exactly once, during the construction, so that later reads
\* construct nothing; the other fields are constructed by reads after the
\* construction only.
C12_EagerAtConstruction ==
    /\ \A i, j \in DOMAIN log.trace :
          i < j => StepRank(log.trace[i].step) <= StepRank(log.trace[j].step)
    /\ ctx.phase = "ready" =>
          \A f \in EagerFields :
              /\ ctx.dict[f] # 0
              /\ Cardinality(MadeFor(f)) = 1
              /\ \A m \in MadeFor(f) : m.during = "init"
    /\ \A f \in NormalFields \ EagerFields :
          \A m \in MadeFor(f) : m.during = "ready"

\* C13: the construction of a context raises NotProvidedException whenever
\* a provided field of the context, declared on its class or inherited, was
\* not assigned by the constructor body, whether the field is read or not;
\* it succeeds when all provided fields were assigned.
C13_NotProvidedRaised ==
    ctx.phase \in {"ready", "failed"} =>
        IF \E f \in ProvidedFields : ctx.dict[f] = 0
        THEN /\ ctx.phase = "failed"
             /\ log.trace[Len(log.trace)].err = "NotProvidedException"
        ELSE ctx.phase = "ready"

\* C14: a read of a provided field that holds its placeholder raises
\* NotProvidedException, in the constructor body and through the provider of
\* the context's container as well: the placeholder is never returned to a
\* reader (the check of new_init apart) and never passed to the constructor
\* of an auto-wired object.
C14_PlaceholderNeverSeen ==
    /\ \A t \in Threads : \A i \in DOMAIN log.reads[t] :
          log.reads[t][i].by # "check" =>
              /\ ~IsPlaceholder(log.reads[t][i].val)
              /\ (log.reads[t][i].how = "class" =>
                     log.reads[t][i].err = "NotProvidedException")
    /\ \A o \in DOMAIN heap : \A n \in DOMAIN heap[o].kw :
          ~IsPlaceholder(heap[o].kw[n])

ContainersInUse ==
    UNION { { th[t].stack[i].cont :
                i \in { j \in DOMAIN th[t].stack :
                          th[t].stack[j].kind \in {"autowire", "resolve"} } } :
            t \in Threads }

\* C20: a context has exactly one container: the projection of its
\* properties is computed once, and every read of ctx.container, by any
\* thread and at any time, yields that container.
C20_OneContainer ==
    /\ Len(ctx.conts) <= 1
    /\ \A c \in ContainersInUse : c = ctx.container

(***************************************************************************)
(* Claims about removal and registration.                                  *)
(***************************************************************************)
\* C25: after container.remove(p) with a provider argument p, the providers
\* that are not equal to p (name, type and supplier) are all still
\* registered in their order, at most one provider was removed, and when no
\* registered provider equals p the provider list is unchanged, also when
\* one has the name and type of p but another supplier
C25_RemoveByEquality ==
    last.op = "remove_provider" =>
        LET Other(p) == p # last.arg
        IN  /\ SelectSeq(providers, Other) = SelectSeq(last.pre, Other)
            /\ Len(providers) >= Len(last.pre) - 1
            /\ (\A i \in DOMAIN last.pre : last.pre[i] # last.arg)
                    => providers = last.pre
            /\ (\E i \in DOMAIN last.pre : last.pre[i] = last.arg)
                    => Len(providers) = Len(last.pre) - 1

\* remove was called with a provider that has the name and type of a
\* registered one but a supplier of its own
C25_Witness ==
    /\ last.op = "remove_provider"
    /\ \E i \in DOMAIN last.pre :
            /\ last.pre[i].name = last.arg.name
            /\ last.pre[i].type = last.arg.type
            /\ last.pre[i].getter.obj = last.arg.getter.obj
            /\ last.pre[i] # last.arg
    /\ \A i \in DOMAIN last.pre : last.pre[i] # last.arg
    /\ providers = last.pre

\* C26: Container.add never rejects a registration: whatever providers are
\* registered, also one of the same name or type, the call returns and the
\* provider list is the list before the call with the new provider appended
C26_AddNeverRejects ==
    last.op = "add" =>
        /\ last.err = None
        /\ providers = Append(last.pre, last.arg)

(***************************************************************************)
(* Claims about thread_local_cached_property.                              *)
(***************************************************************************)
\* the objects that the function of property a returned in thread t
ComputedBy(t, a) == { r \in log.made : r.thread = t /\ r.field = a }

\* C28: for every property of the instance and every thread the wrapped
\* function has run at most once, every read of the property that the
\* thread completed returned the result of that run, and no two threads
\* were handed the same object
C28_OncePerThread ==
    \A t \in Threads : \A a \in LocalProperties :
        /\ Cardinality(ComputedBy(t, a)) <= 1
        /\ \A i \in DOMAIN log.reads[t] :
              log.reads[t][i].field = a =>
                  /\ \E r \in ComputedBy(t, a) : r.obj = log.reads[t][i].val
                  /\ \A u \in Threads \ {t} : \A j \in DOMAIN log.reads[u] :
                        log.reads[u][j].val # log.reads[t][i].val

(***************************************************************************)
(* Claims about a context and its container, for one client.               *)
(***************************************************************************)
\* the providers of the container of the context, none when the context
\* has no container
OwnProviders == IF ctx.container = 0 THEN << >> ELSE ctx.conts[ctx.container]

\* the places of the providers that read property f off the context
ProvidersOf(f) ==
    { i \in DOMAIN OwnProviders :
        /\ OwnProviders[i].getter.kind = "prop"
        /\ OwnProviders[i].getter.property = f }

\* every property of the class has one provider in the container of the
\* context and every provider that reads the context belongs to a property
\* of the class other than container
OnePerProperty ==
    /\ \A f \in FieldsOf : Cardinality(ProvidersOf(f)) = 1
    /\ \A i \in DOMAIN OwnProviders :
          OwnProviders[i].getter.kind = "prop"
              => OwnProviders[i].getter.property \in FieldsOf

\* name n is the name f without its first underscore, if it starts with one
OneStripped(f, n) ==
    IF Head(Spelling(f)) = "_" THEN Spelling(f) = <<"_">> \o Spelling(n)
    ELSE n = f

\* name n starts with no underscore and is the name f without the
\* underscores it starts with
AllStripped(f, n) ==
    /\ Head(Spelling(n)) # "_"
    /\ \E k \in 0..Len(Spelling(f)) :
          Spelling(f) = [j \in 1..k |-> "_"] \o Spelling(n)

\* C21 as stated: once the container of a context is computed it holds one
\* provider per declared property, and the name of each is the name of the
\* property with a single leading underscore stripped
C21_SingleUnderscoreStripped ==
    ctx.container # 0 =>
        /\ OnePerProperty
        /\ \A f \in FieldsOf : \A i \in ProvidersOf(f) :
              OneStripped(f, OwnProviders[i].name)

\* C21 amended: once the container of a context is computed it holds one
\* provider per declared property, and the name of each is the name of the
\* property with all its leading underscores stripped
C21_AllUnderscoresStripped ==
    ctx.container # 0 =>
        /\ OnePerProperty
        /\ \A f \in FieldsOf : \A i \in ProvidersOf(f) :
              /\ AllStripped(f, OwnProviders[i].name)
              /\ OwnProviders[i].type = Decl(f).type

\* the container of a context whose class has a cached property, a plain
\* property, a thread-local property and an auto-wired field, with names of
\* no, one and two leading underscores, is computed
C21_Witness ==
    /\ ctx.cls = "UnderscoreContext"
    /\ ctx.container # 0
    /\ \E i \in ProvidersOf("__service0__") :
          OwnProviders[i].name = "service0__"
    /\ \E i \in ProvidersOf("_service1") : OwnProviders[i].name = "service1"
    /\ \E i \in ProvidersOf("service3") : OwnProviders[i].name = "service3"

ByClient(r) == r.by = "client"

\* the log of the client's calls on the context, without the reads that
\* the providers of its container made
Calls == SelectSeq(log.reads[Client], ByClient)

\* the provided field of the class of the context, if it has one
ProvidedField == { f \in FieldsOf : Decl(f).kind = "provided" }

\* the value field f had when the client made call i: the one assigned
\* last before it, or the one the constructor assigned
ValueAt(i, f) ==
    LET sets == { j \in 1..(i - 1) :
                    Calls[j].how = "set" /\ Calls[j].field = f }
    IN  IF sets = {}
        THEN Len(Built(<< >>, Decl(f).type))
        ELSE Calls[CHOOSE j \in sets : \A k \in sets : k <= j].val

\* the constructor parameters of class t that have the type u
ParamsOfType(t, u) ==
    { _get_dependencies_for_type(t)[k].name :
        k \in { j \in DOMAIN _get_dependencies_for_type(t) :
                  _get_dependencies_for_type(t)[j].type = u } }

\* C22: a provided field that is reassigned is read off the live context:
\* ctx.container.resolve of the type of the field returns the value the
\* field has at the time of the call, and an object that ctx.autowire
\* builds receives that value for its parameters of the type, whether the
\* container was computed before the assignment or after
C22_LiveProvidedField ==
    ctx.cls = "ProvidedContext" =>
        \A f \in ProvidedField : \A i \in DOMAIN Calls :
            /\ (Calls[i].how = "resolve" /\ Calls[i].type = Decl(f).type)
                   => /\ Calls[i].err = None
                      /\ Calls[i].val = ValueAt(i, f)
            /\ Calls[i].how = "autowire"
                   => /\ Calls[i].err = None
                      /\ \A n \in ParamsOfType(Calls[i].type, Decl(f).type) :
                            heap[Calls[i].val].kw[n] = ValueAt(i, f)

\* the container was computed, then the provided field was reassigned, and
\* after that the client resolved its type and auto-wired a class that
\* needs it
C22_Witness ==
    /\ ctx.cls = "ProvidedContext"
    /\ Len(Calls) = 4
    /\ Calls[1].how \in {"container", "resolve"}
    /\ Calls[2].how = "set"
    /\ Calls[3].how = "resolve" /\ Calls[3].type = "Service0"
    /\ Calls[3].val = Calls[2].val
    /\ Calls[4].how = "autowire"
    /\ heap[Calls[4].val].kw["service0"] = Calls[2].val

\* C23: a read of an auto-wired field without annotation raises
\* MissingTypeAnnotation; in a context whose class has a field or property
\* without a type every access to ctx.container raises it, also through
\* ctx.autowire, ctx.container.resolve or the read of an annotated field
\* that has to be built, and the context never holds a container
C23_MissingTypeRaised ==
    /\ \A i \in DOMAIN Calls :
          ( /\ Calls[i].field # None
            /\ Calls[i].how # "set"
            /\ Decl(Calls[i].field).kind = "autowired"
            /\ Decl(Calls[i].field).type = None )
              => Calls[i].err = "MissingTypeAnnotation"
    /\ (\E f \in FieldsOf : Decl(f).type = None) =>
          /\ ctx.container = 0
          /\ \A i \in DOMAIN Calls :
                Calls[i].how \notin {"set", "dict", "class", "derive_from"}
                    => Calls[i].err = "MissingTypeAnnotation"

\* the client asked twice for the container of a context whose class has
\* an annotated field and one without annotation
C23_Witness ==
    /\ ctx.cls = "PartlyAnnotatedContext"
    /\ Len(Calls) >= 3
    /\ Calls[1].how = "container" /\ Calls[1].err = "MissingTypeAnnotation"
    /\ Calls[2].field = "service1" /\ Calls[2].err = "MissingTypeAnnotation"
    /\ Calls[3].how = "container" /\ Calls[3].err = "MissingTypeAnnotation"
    /\ ctx.container = 0

\* the client's call of derive_from ends in this step
DeriveEnds ==
    /\ th[Client].stack # << >>
    /\ Top(Client).kind = "call"
    /\ Top(Client).how = "derive_from"
    /\ th'[Client].stack = << >>

\* the providers of the container of the context, computed now if the
\* context has none yet
ExistingProviders == IF ctx.container = 0 THEN Projection ELSE OwnProviders

\* C24: ctx.derive_from(other) leaves in the container of ctx the providers
\* it had, followed by the providers of other in their order, and does not
\* change other; and an object that is auto-wired from ctx with a parameter
\* that only a provider of other serves holds the very object of that
\* provider
C24_DeriveAppends ==
    /\ [][DeriveEnds /\ ~Untyped =>
              /\ ctx'.container # 0
              /\ ctx'.conts[ctx'.container] = ExistingProviders \o providers
              /\ providers' = providers]_vars
    /\ [](\A i \in DOMAIN Calls :
              (Calls[i].field = "service4" /\ Calls[i].err = None) =>
                  \E j \in DOMAIN OwnProviders :
                     /\ OwnProviders[j].getter.kind = "const"
                     /\ OwnProviders[j].getter.obj
                            = heap[Calls[i].val].kw["x"])

\* the context was derived from a container with two providers, and a
\* field that was read afterwards holds the instance of one of them
C24_Witness ==
    /\ ctx.cls = "RegisterContext"
    /\ Len(providers) = 2
    /\ Len(Calls) = 2
    /\ Calls[1].how = "derive_from"
    /\ Len(OwnProviders) = Len(ContextFields) + 2
    /\ Calls[2].field = "service4" /\ Calls[2].err = None
    /\ \E j \in DOMAIN providers :
          providers[j].getter.obj = heap[Calls[2].val].kw["x"]

\* the reads of field f in the client's log
GetsOf(f) ==
    { i \in DOMAIN Calls : Calls[i].field = f /\ Calls[i].how # "set" }

\* the calls of the given kind that the client made before call i
Earlier(i, how) == { j \in 1..(i - 1) : Calls[j].how = how }

\* C29: a normal auto-wired field whose resolution raised stays unresolved
\* and its lock free; a read after a failed one is not served from
\* __dict__ but goes through the resolution again; in the context of test_register_instance the read of
\* service4 raises UnresolvableDependencyException as long as the container
\* has no provider for ServiceX, and once the client has added a ServiceX
\* to ctx.container the read returns a Service4 that holds it
C29_FailureNotCached ==
    \A f \in NormalFields :
        /\ th[Client].stack = << >> => ctx.locks[f] = 0
        /\ \A i \in GetsOf(f) :
              /\ ( /\ Calls[i].err # None
                   /\ \A j \in GetsOf(f) : j <= i )
                     => (th[Client].stack = << >> => ctx.dict[f] = 0)
              /\ (\E j \in GetsOf(f) : j < i /\ Calls[j].err # None
                      /\ \A k \in GetsOf(f) : k < i => Calls[k].err # None)
                     => Calls[i].how \notin {"dict", "recheck"}
              /\ ( /\ ctx.cls = "RegisterContext" /\ f = "service4"
                   /\ Earlier(i, "derive_from") = {} )
                     => IF Earlier(i, "add") = {}
                        THEN /\ Calls[i].err
                                    = "UnresolvableDependencyException"
                             /\ Calls[i].val = 0
                        ELSE Cardinality(Earlier(i, "add")) = 1 =>
                                /\ Calls[i].err = None
                                /\ \A j \in Earlier(i, "add") :
                                      heap[Calls[i].val].kw["x"]
                                          = Calls[j].arg

\* the read of service4 raised, the client added a ServiceX to the
\* container of the context and read the field again
C29_Witness ==
    /\ ctx.cls = "RegisterContext"
    /\ Len(Calls) = 3
    /\ Calls[1].field = "service4"
    /\ Calls[1].err = "UnresolvableDependencyException"
    /\ Calls[2].how = "add"
    /\ Calls[3].field = "service4" /\ Calls[3].err = None
    /\ heap[Calls[3].val].kw["x"] = Calls[2].arg
    /\ ctx.dict["service4"] = Calls[3].val

\* the cached properties, normal auto-wired fields and provided fields of
\* the class of the context
CachedFields ==
    { f \in FieldsOf :
        \/ Decl(f).kind \in {"cached_property", "provided"}
        \/ f \in NormalFields }

\* f is the only property of the class whose type is assignable to t
OnlyAssignable(f, t) ==
    /\ Decl(f).type # None
    /\ is_subtype(Decl(f).type, t)
    /\ \A g \in FieldsOf \ {f} :
          Decl(g).type = None \/ ~is_subtype(Decl(g).type, t)

\* the values field f has had: the one it holds, and for a provided field
\* also the ones it held before the client assigned it
ValuesOf(f) ==
    {ctx.dict[f]} \cup
    { ValueAt(i, f) : i \in { j \in DOMAIN Calls :
                                Decl(f).kind = "provided" } }

Constructed(f) ==
    { i \in DOMAIN Calls :
        /\ Calls[i].field = f /\ Calls[i].how # "set" /\ Calls[i].err = None
        /\ \A j \in 1..(i - 1) :
              ~(Calls[j].field = f /\ Calls[j].how # "set"
                  /\ Calls[j].err = None) }

\* the value the field of a selector has for the client's call i
SelectedAt(i, g) ==
    IF Decl(g).kind = "provided" THEN ValueAt(i, g) ELSE ctx.dict[g]

\* the keyword arguments of field f that the declaration gives by an
\* attribute path on another field
SelectorsOf(f) == { KwArgs(f)[k] : k \in DOMAIN KwArgs(f) }

\* C27: the keyword arguments of an auto-wired field that are given as a
\* field of the class body, or as an attribute path on one, are evaluated
\* when the field is constructed: the object receives what the path yields
\* on the value the field has then, a lazy field is resolved for it and
\* stays the object that a direct read returns, and a path with a missing
\* attribute makes the read of the field raise AttributeError
C27_SelectorsAtConstruction ==
    \A i \in DOMAIN Calls :
        (Calls[i].field # None /\ Calls[i].how # "set") =>
            \A e \in SelectorsOf(Calls[i].field) :
                LET src == SelectedAt(i, e.field)
                IN  IF src # 0 /\ select(src, e.path) = 0
                    THEN Calls[i].err = "AttributeError"
                    ELSE /\ Calls[i].err = None
                         /\ i \in Constructed(Calls[i].field) =>
                               /\ src # 0
                               /\ heap[Calls[i].val].kw[e.param]
                                      = select(src, e.path)

(***************************************************************************)
(* Properties of Container.autowire, resolve and remove: explicit          *)
(* arguments, parameters without annotation, defaults, inherited           *)
(* constructors and the effect of the calls on the provider list.          *)
(***************************************************************************)
\* the container as it was before the latest call
Before == [providers |-> last.pre, heap |-> SubSeq(heap, 1, last.preN)]

\* the parameters of the class of the latest autowire call
LastParams == _get_dependencies_for_type(last.type)

\* those of them that the call did not pass explicitly
NotPassed(d) == d.name \notin DOMAIN last.kw

\* C31: a keyword argument passed to autowire(T, **explicit_args) reaches
\* the constructor as it is and takes precedence over the container: the
\* call does to the provider list, and fails or succeeds, as if T had no
\* such parameter, so that the parameter is neither looked up nor resolved
\* nor registered and the call never raises at it
C31_ExplicitTakesPrecedence ==
    (last.op = "autowire" /\ last.kw # EmptyKw) =>
        \A r \in { autowire_deps(Before, last.type,
                                 SelectSeq(LastParams, NotPassed), 1,
                                 EmptyKw) } :
            /\ providers = r.c.providers
            /\ (last.err = None) = (r.err = None)
            /\ last.at # 0 => NotPassed(LastParams[last.at])
            /\ last.err = None =>
                  \A n \in DOMAIN last.kw :
                      heap[last.val].kw[n] = last.kw[n]

\* the client passed an object for a parameter for which the lookup in the
\* container is ambiguous, and for one that the container cannot resolve
C31_Witness ==
    /\ last.op = "autowire"
    /\ last.err = None
    /\ \E i \in DOMAIN LastParams :
          /\ ~NotPassed(LastParams[i])
          /\ \/ get_provider(last.pre, LastParams[i]).kind = "ambiguous"
             \/ resolve(Before, LastParams[i]).err
                    = "IllegalAutoWireType"

\* the parameters of class t that have neither annotation nor default
Unannotated(t) ==
    IF _get_actual_init(t) = None THEN {}
    ELSE { i \in DOMAIN OwnInitParams(_get_actual_init(t)) :
             /\ OwnInitParams(_get_actual_init(t))[i].annotation = ""
             /\ OwnInitParams(_get_actual_init(t))[i].default = None }

\* C32: a constructor parameter with neither a type annotation nor a
\* default value is unresolvable: autowire(T) of a class T with such a
\* parameter raises UnresolvableDependencyException whatever providers the
\* container holds
C32_UntypedUnresolvable ==
    (last.op = "autowire" /\ Unannotated(last.type) # {}
        /\ ModuleOf(last.type) = "tests")
        => last.err = "UnresolvableDependencyException"

\* the container when the loop of the latest autowire call reached its
\* k-th parameter
ReachedAt(k) ==
    autowire_deps(Before, last.type, SubSeq(LastParams, 1, k - 1), 1,
                  EmptyKw).c

\* the default value of the k-th parameter of class t, None without one
DefaultOf(t, k) == OwnInitParams(_get_actual_init(t))[k].default

\* C33: a constructor parameter with a default value is injected from the
\* container whenever it can be resolved: the object of a matching provider
\* is passed, and the default is left to the constructor only when
\* resolve failed for the parameter.  The type asked for a parameter with
\* a default but no annotation is the class of the default value, so that
\* what is injected for it is an instance of that class
C33_DefaultOnlyOnFailure ==
    (last.op = "autowire" /\ last.err = None) =>
        \A k \in DOMAIN LastParams :
            DefaultOf(last.type, k) # None =>
                \A c \in {ReachedAt(k)} :
                    LET dep == LastParams[k]
                        existing == get_provider(c.providers, dep)
                        kw == heap[last.val].kw
                    IN  /\ ~dep.required
                        /\ existing.kind = "found" =>
                              /\ dep.name \in DOMAIN kw
                              /\ get_instance(c, existing.provider).val
                                     = kw[dep.name]
                        /\ dep.name \notin DOMAIN kw =>
                              IsAutowiredException(resolve(c, dep).err)
                        /\ dep.name \in DOMAIN kw =>
                              is_subtype(heap[kw[dep.name]].type,
                                         IF OwnInitParams(_get_actual_init(
                                                last.type))[k].annotation = ""
                                         THEN DefaultOf(last.type, k)
                                         ELSE dep.type)

\* a registered instance of the class of the default value was injected
\* for a parameter without annotation, after another class was built with
\* the default of a parameter that could not be resolved
C33_Witness ==
    /\ last.op = "autowire" /\ last.err = None
    /\ last.type = "SomeService"
    /\ get_provider(last.pre, LastParams[1]).kind = "found"
    /\ heap[last.val].kw["arg"]
           = get_provider(last.pre, LastParams[1]).provider.getter.obj
    /\ Len(last.pre) > 1
    /\ \E o \in DOMAIN heap :
          heap[o].type = "Service2" /\ "blabla" \notin DOMAIN heap[o].kw

\* the classes met when the bases of t are walked depth first in their
\* order of declaration, t first
RECURSIVE Walk(_)
Walk(t) ==
    LET RECURSIVE Over(_)
        Over(bs) == IF bs = << >> THEN << >>
                    ELSE Walk(Head(bs)) \o Over(Tail(bs))
    IN  <<t>> \o Over(Bases(t))

\* the classes of that walk that define a constructor themselves
Defining(t) == SelectSeq(Walk(t), HasOwnInit)

\* C34: the parameters autowire(T) works with are those of the nearest
\* constructor of T: the one T defines, otherwise the first one found when
\* the base classes of T are walked depth first in their order of
\* declaration.  The object is built with exactly those parameters that
\* were resolved, and a class without a constructor anywhere is built
\* without arguments
C34_NearestConstructor ==
    (last.op = "autowire" /\ last.err = None) =>
        /\ Defining(last.type) = << >> => heap[last.val].kw = EmptyKw
        /\ Defining(last.type) # << >> =>
              LET ps == OwnInitParams(Defining(last.type)[1])
              IN  /\ DOMAIN heap[last.val].kw
                         \subseteq { ps[k].name : k \in DOMAIN ps }
                  /\ \A k \in DOMAIN ps :
                        ps[k].default = None =>
                            /\ ps[k].name \in DOMAIN heap[last.val].kw
                            /\ ps[k].annotation # "" =>
                                  is_subtype(
                                      heap[heap[last.val].kw[ps[k].name]].type,
                                      ps[k].annotation)

\* a class whose first base defines no constructor was built with the
\* parameter of the constructor of its second base, after a class whose
\* two bases both lead to a constructor was built with that of the first
C34_Witness ==
    /\ last.op = "autowire" /\ last.err = None
    /\ last.type = "MixedProvider"
    /\ heap[heap[last.val].kw["dep"]].type = "Dep"
    /\ \E o \in DOMAIN heap :
          /\ heap[o].type = "TwoBases"
          /\ DOMAIN heap[o].kw = {"dep"}
    /\ \E o \in DOMAIN heap :
          heap[o].type = "Service0" /\ heap[o].kw = EmptyKw

(***************************************************************************)
(* Fields that are declared transient and thread-local                     *)
(***************************************************************************)
BothFields == { f \in FieldsOf : Decl(f).transient /\ Decl(f).thread_local }

\* C35: for a field declared with transient=True and thread_local=True
\* transient takes precedence: every read, by any thread, constructs a new
\* instance, so that no read fails and any two reads return distinct
\* objects, and nothing is kept per thread
C35_TransientTakesPrecedence ==
    \A f \in BothFields :
        /\ ~ctx.storage[f]
        /\ \A t \in Threads : ctx.tls[f][t] = 0
        /\ \A t, u \in Threads :
              \A i \in DOMAIN ReadsOf(t, f) : \A j \in DOMAIN ReadsOf(u, f) :
                  /\ ReadsOf(t, f)[i].err = None
                  /\ \E m \in MadeFor(f) : m.obj = ReadsOf(t, f)[i].val
                  /\ (t # u \/ i # j) =>
                        ReadsOf(t, f)[i].val # ReadsOf(u, f)[j].val

(***************************************************************************)
(* The effect of autowire and resolve on the provider list                 *)
(***************************************************************************)
\* the providers the latest call appended
Appended == SubSeq(providers, Len(last.pre) + 1, Len(providers))

\* the provider list before the latest call is the head of the list now
PrefixKept ==
    /\ Len(last.pre) <= Len(providers)
    /\ SubSeq(providers, 1, Len(last.pre)) = last.pre

\* the types of the constructor parameters of t, of their parameters, and
\* so on n levels deep
RECURSIVE Needs(_, _)
Needs(t, n) ==
    IF n = 0 THEN {}
    ELSE LET direct == { _get_dependencies_for_type(t)[k].type :
                            k \in DOMAIN _get_dependencies_for_type(t) }
         IN  direct \cup UNION { Needs(u, n - 1) : u \in direct }

\* C36: Container.autowire(T) does not store its result: no provider it
\* appends holds the object it returns, so that a second autowire(T)
\* returns another object; the providers it appends are singletons of the
\* types of the parameters it had to auto-construct, for which no provider
\* was registered
C36_AutowireStoresNothing ==
    last.op = "autowire" =>
        /\ PrefixKept
        /\ last.err = None =>
              /\ last.val > last.preN
              /\ heap[last.val].type = last.type
              /\ \A i \in DOMAIN providers :
                    providers[i].getter.obj # last.val
              /\ (last.rep.valid /\ last.rep.err = None)
                    => last.val # last.rep.val
        /\ \A i \in DOMAIN Appended :
              LET p == Appended[i]
              IN  /\ p.getter.kind = "const"
                  /\ p.getter.obj > last.preN
                  /\ heap[p.getter.obj].type = p.type
                  /\ p.type \in Needs(last.type, Cardinality(Classes))
                  /\ get_providers(last.pre,
                                   Dependency(p.name, p.type, TRUE)) = << >>

\* autowire of one class was called twice in a row on a container that
\* only autowire has added providers to
C36_Witness ==
    /\ last.op = "autowire" /\ last.err = None
    /\ last.rep.valid /\ last.rep.err = None
    /\ last.val # last.rep.val
    /\ pure
    /\ Len(providers) >= 2

\* C38: resolve and autowire only append to the provider list: the list
\* before the call is the head of the list after it, also when the call
\* raises.  A resolve(D) that raises registers no provider for D, every
\* provider that was appended holds an object that was built, and the
\* providers appended for the parameters resolved before the failure stay
C38_AppendOnly ==
    last.op \in {"resolve", "autowire"} =>
        /\ PrefixKept
        /\ \A i \in DOMAIN Appended :
              /\ Appended[i].getter.kind = "const"
              /\ Appended[i].getter.obj \in (last.preN + 1)..Len(heap)
              /\ heap[Appended[i].getter.obj].type = Appended[i].type
        /\ (last.op = "resolve" /\ last.err # None) =>
              \A i \in DOMAIN Appended :
                  ~(Appended[i].name = last.name
                      /\ Appended[i].type = last.type)
        /\ (last.err # None /\ last.op = "autowire" /\ last.at > 1) =>
              providers = ReachedAt(last.at).providers

\* a call raised at its second parameter after it had auto-wired and
\* registered the first
C38_Witness ==
    /\ last.op \in {"resolve", "autowire"}
    /\ last.type = "PartService"
    /\ last.err = "UnresolvableDependencyException"
    /\ last.pre = << >>
    /\ Len(providers) = 2
    /\ providers[2].type = "Service1"
    /\ last.op = "autowire" => last.at = 2

(***************************************************************************)
(* Container.remove                                                        *)
(***************************************************************************)
\* the places in the provider list before the latest remove call of the
\* providers that the argument of the call names or equals
Matching ==
    { i \in DOMAIN last.pre :
        IF last.op = "remove" THEN last.pre[i].name = last.name
        ELSE last.pre[i] = last.arg }

\* C39: Container.remove(x) deletes at most one provider, the first in
\* insertion order whose name is x, or which equals x when x is a
\* provider; the other providers keep their order, and when no provider
\* matches the call changes nothing and raises nothing
C39_RemovesFirstMatch ==
    last.op \in {"remove", "remove_provider"} =>
        /\ last.err = None
        /\ Len(heap) = last.preN
        /\ Matching = {} => providers = last.pre
        /\ Matching # {} =>
              \E i \in Matching :
                  /\ \A j \in Matching : i <= j
                  /\ Len(providers) = Len(last.pre) - 1
                  /\ \A j \in DOMAIN providers :
                        providers[j] = IF j < i THEN last.pre[j]
                                       ELSE last.pre[j + 1]

\* a provider was removed that was neither the first of the list nor the
\* only one that matched
C39_Witness ==
    /\ last.op \in {"remove", "remove_provider"}
    /\ Cardinality(Matching) >= 2
    /\ 1 \notin Matching
    /\ Len(providers) = Len(last.pre) - 1

(***************************************************************************)
(* A dependency that two fields of a context share                         *)
(***************************************************************************)
\* the providers of the context's container whose type is t
ProvidersFor(t) ==
    IF ctx.container = 0 THEN << >>
    ELSE SelectSeq(ctx.conts[ctx.container], LAMBDA p : p.type = t)

\* C37: when the fields a and b of a context both need a HiddenDep that is
\* not registered, and threads read them for the first time at the same
\* time, HiddenDep is constructed once: the heap holds at most one, the
\* context's container holds at most one provider for it, so that its
\* lookup is never ambiguous and no read fails, and the objects of the two
\* fields hold the same HiddenDep
C37_HiddenDepOnce ==
    /\ Cardinality({ o \in DOMAIN heap : heap[o].type = "HiddenDep" }) <= 1
    /\ Len(ProvidersFor("HiddenDep")) <= 1
    /\ ctx.container # 0 =>
          get_provider(ctx.conts[ctx.container],
                       Dependency("hidden_dep", "HiddenDep", TRUE)).kind
              # "ambiguous"
    /\ \A t \in Threads : \A i \in DOMAIN log.reads[t] :
          log.reads[t][i].err = None
    /\ (ctx.dict["a"] # 0 /\ ctx.dict["b"] # 0) =>
          /\ heap[ctx.dict["a"]].kw["hidden_dep"]
                 = heap[ctx.dict["b"]].kw["hidden_dep"]
          /\ Len(ProvidersFor("HiddenDep")) = 1

====
